---- MODULE Spec2Model ----
(***************************************************************************)
(* Model of apollo-datasource-dynamodb: DynamoDBDataSource (getItem,       *)
(* query, scan, put, update, delete), DynamoDBCacheImpl and the key        *)
(* builders of utils.ts, over a DynamoDB table and a KeyValueCache.        *)
(*                                                                         *)
(* JavaScript values are tagged records.  A string is a sequence of        *)
(* tokens, so that template-literal concatenation is sequence              *)
(* concatenation.  An object is a sequence of <<name, value>> entries in   *)
(* insertion order.  Every `await` of the code ends one step of the model. *)
(***************************************************************************)
EXTENDS Integers, Sequences, FiniteSets, TLC

\* ------------------------------------------------------------------ values
Undef == [t |-> "undefined"]
Null == [t |-> "null"]
Str(s) == [t |-> "string", s |-> s]
Num(n) == [t |-> "number", n |-> n]
Obj(e) == [t |-> "object", e |-> e]
\* the string JSON.stringify produces for the value v
JsonText(v) == [t |-> "json", v |-> v]
\* a thrown Error object
Err(name, msg) == [t |-> "error", name |-> name, message |-> msg]

\* JS truthiness, as used by `if (x)`, `a && b`, `a || b`
Truthy(v) ==
  CASE v.t = "undefined" -> FALSE
    [] v.t = "null" -> FALSE
    [] v.t = "string" -> v.s # <<>>
    [] v.t = "number" -> v.n # 0
    [] OTHER -> TRUE

\* `${v}` : the tokens a template literal appends for v
TemplateStr(v) ==
  CASE v.t = "string" -> v.s
    [] v.t = "number" -> <<ToString(v.n)>>
    [] v.t = "undefined" -> <<"undefined">>
    [] v.t = "null" -> <<"null">>
    [] OTHER -> <<"[object Object]">>

\* obj[name]
RECURSIVE Prop(_, _)
Prop(e, name) ==
  IF e = <<>> THEN Undef
  ELSE IF e[Len(e)][1] = name THEN e[Len(e)][2]
  ELSE Prop(SubSeq(e, 1, Len(e) - 1), name)

\* {...obj, [name]: v} : in place when the name exists, appended otherwise
SetProp(e, name, v) ==
  IF \E i \in 1..Len(e) : e[i][1] = name
  THEN [i \in 1..Len(e) |-> IF e[i][1] = name THEN <<name, v>> ELSE e[i]]
  ELSE Append(e, <<name, v>>)

\* JSON.stringify: undefined for undefined, else a text; object entries
\* whose value is undefined are dropped
DropUndef(e) == SelectSeq(e, LAMBDA kv : kv[2] # Undef)
JSONstringify(v) ==
  IF v = Undef THEN Undef
  ELSE IF v.t = "object" THEN JsonText(Obj(DropUndef(v.e)))
  ELSE JsonText(v)

\* JSON.parse: the value of a JSON text, a SyntaxError for any other string
JSONparse(s) ==
  IF s.t = "json" THEN [ok |-> TRUE, v |-> s.v]
  ELSE [ok |-> FALSE, v |-> Err("SyntaxError", Str(<<"Unexpected token">>))]

\* --------------------------------------------------------------- constants
CACHE_PREFIX_KEY == <<"dynamodbcache", ":">>
TTL_SEC == 30 * 60
DefaultGetMessage == Str(<<"An error occurred attempting to retrieve the item">>)
DefaultEvictMessage == Str(<<"An error occurred trying to evict the item from the cache">>)

\* ---------------------------------------------------------------- utils.ts
\* Object.entries(key).reduce((accum, curr) => `${accum}:${curr[0]}-${curr[1]}`, '')
RECURSIVE KeysStr(_)
KeysStr(e) ==
  IF e = <<>> THEN <<>>
  ELSE KeysStr(SubSeq(e, 1, Len(e) - 1))
         \o <<":">> \o e[Len(e)][1] \o <<"-">> \o TemplateStr(e[Len(e)][2])

\* mutant: the table name comes before the prefix
buildCacheKey_TableFirst(cachePrefix, tableName, key) ==
  tableName \o cachePrefix \o KeysStr(key.e)

buildCacheKey(cachePrefix, tableName, key) ==
  cachePrefix \o tableName \o KeysStr(key.e)

RECURSIVE buildKeyEntries(_, _)
buildKeyEntries(keySchema, item) ==
  IF keySchema = <<>> THEN <<>>
  ELSE SetProp(buildKeyEntries(SubSeq(keySchema, 1, Len(keySchema) - 1), item),
               keySchema[Len(keySchema)],
               Prop(item.e, keySchema[Len(keySchema)]))

\* mutant: the item is returned with all its attributes
buildKey_WholeItem(keySchema, item) == item

buildKey(keySchema, item) == Obj(buildKeyEntries(keySchema, item))

\* mutant: the accumulator is not spread into the result
buildItemsCacheMap_DropsAccum(cachePrefix, tableName, keySchema, items) ==
  IF items = <<>> THEN <<>>
  ELSE <<<<buildCacheKey(cachePrefix, tableName, buildKey(keySchema, items[Len(items)])),
           items[Len(items)]>>>>

\* mutant: a key that is already in the accumulator keeps its record
RECURSIVE buildItemsCacheMap_FirstWins(_, _, _, _)
buildItemsCacheMap_FirstWins(cachePrefix, tableName, keySchema, items) ==
  IF items = <<>> THEN <<>>
  ELSE LET accum == buildItemsCacheMap_FirstWins(cachePrefix, tableName, keySchema,
                                                 SubSeq(items, 1, Len(items) - 1))
           ck == buildCacheKey(cachePrefix, tableName,
                               buildKey(keySchema, items[Len(items)]))
       IN IF \E i \in 1..Len(accum) : accum[i][1] = ck THEN accum
          ELSE Append(accum, <<ck, items[Len(items)]>>)

RECURSIVE buildItemsCacheMap(_, _, _, _)
buildItemsCacheMap(cachePrefix, tableName, keySchema, items) ==
  IF items = <<>> THEN <<>>
  ELSE SetProp(buildItemsCacheMap(cachePrefix, tableName, keySchema,
                                  SubSeq(items, 1, Len(items) - 1)),
               buildCacheKey(cachePrefix, tableName,
                             buildKey(keySchema, items[Len(items)])),
               items[Len(items)])

\* ------------------------------------------------------------ configuration
\* the data source under test: new DataSource(tableName, tableKeySchema)
tableName == <<"t">>
AttrId == <<"id">>
AttrTs == <<"ts">>
AttrV == <<"v">>
tableKeySchema == <<AttrId, AttrTs>>

\* attribute values the callers and the table use
IdVals == {Str(<<"x">>)}
TsVals == {Str(<<"1">>), Str(<<"2">>)}
Payloads == {Num(1), Num(2)}
PKs == IdVals \X TsVals
\* the order in which the table returns the records of a query or scan
PKSeq == <<<<Str(<<"x">>), Str(<<"1">>)>>, <<Str(<<"x">>), Str(<<"2">>)>>>>

Rec(pk, v) == Obj(<<<<AttrId, pk[1]>>, <<AttrTs, pk[2]>>, <<AttrV, v>>>>)
Records == {Rec(pk, v) : pk \in PKs, v \in Payloads}
\* the Key objects callers pass: the attributes in schema order, and for the
\* first primary key also in the other order
KeyObjs ==
  {Obj(<<<<AttrId, pk[1]>>, <<AttrTs, pk[2]>>>>) : pk \in PKs}
    \cup {Obj(<<<<AttrTs, PKSeq[1][2]>>, <<AttrId, PKSeq[1][1]>>>>)}
\* the primary key a Key object or record addresses in the table
PKOf(o) == <<Prop(o.e, AttrId), Prop(o.e, AttrTs)>>

\* the optional ttl argument: omitted, 0, or a positive number of seconds
Ttls == {Undef, Num(0), Num(60)}

\* what a failing client call rejects with
StoreThrown == {Err("AWSError", Str(<<"store failed">>)), Err("AWSError", Undef), Null}
CacheThrown == {Err("Error", Str(<<"cache failed">>)), Err("Error", Str(<<>>)), Null}

\* strings found in a shared cache that this program did not write
Corrupt == Str(<<"{">>)
Junk == {Corrupt, Str(<<>>), JsonText(Null)}
\* the cache key under which such a string may lie when the program starts
JunkKey == CACHE_PREFIX_KEY \o tableName \o <<":", "id", "-", "x", ":", "ts", "-", "1">>

\* the callers whose operations the model follows
Callers == {"p1", "p2"}
\* the callers that invoke operations one after another
Procs == {"p1"}
\* at most MaxPending cache writes of setItemsInCache are unsettled at a time
MaxPending == 2
\* at most MaxCalls operations are invoked in one behaviour
MaxCalls == 2

\* -------------------------------------------------------------------- state
VARIABLES
  table,       \* the DynamoDB table: primary key -> record or Undef
  cache,       \* the KeyValueCache the server supplies: key string -> stored value
  lru,         \* per data source: the InMemoryLRUCache its constructor created
  dynamodbCache, \* per data source: the field dynamodbCache, Undef before initialize
  pending,     \* cache set calls issued by setItemsInCache, not yet settled
  ncalls,      \* the number of operations invoked so far
  pc,          \* per call: the await it is suspended at
  call,        \* per call: [name, input, ttl]
  cacheKey,    \* per call: the local cacheKey
  item,        \* per call: the local item / items / updated / deleted
  ret,         \* per call: the value the promise resolved with
  exc,         \* per call: the error the promise rejected with
  storeCalls,  \* per call: the docClient calls made, in order
  cacheCalls   \* per call: the keyValueCache calls made, in order

vars == <<table, cache, lru, dynamodbCache, pending, ncalls, pc, call, cacheKey, item, ret, exc, storeCalls, cacheCalls>>

NoCall == [name |-> "none", input |-> Undef, ttl |-> Undef]

\* ------------------------------------------------- KeyValueCache instances
\* the cache the server passes to initialize, shared by its data sources
Supplied == [t |-> "cache", id |-> "supplied"]
\* new InMemoryLRUCache(), evaluated in the constructor call of data source p
InMemoryLRUCache(p) == [t |-> "cache", id |-> p]
\* the cache argument of initialize: left out, null, or the server's cache
CacheArgs == {Undef, Null, Supplied}

\* new DynamoDBCacheImpl(docClient, keyValueCache = new InMemoryLRUCache()):
\* the default replaces undefined only
DynamoDBCacheImpl(p, keyValueCache) ==
  [keyValueCache |-> IF keyValueCache = Undef THEN InMemoryLRUCache(p) ELSE keyValueCache]

\* this.dynamodbCache.keyValueCache of the data source of caller p
KeyValueCacheOf(p) == dynamodbCache[p].keyValueCache
\* the entries of the KeyValueCache instance k
Contents(k) == IF k = Supplied THEN cache ELSE lru[k.id]
\* the entries of the KeyValueCache instance k become c
Becomes(k, c) ==
  IF k = Supplied
  THEN cache' = c /\ lru' = lru
  ELSE lru' = [lru EXCEPT ![k.id] = c] /\ cache' = cache

\* what a property access on undefined or null throws
TypeError(property, of) ==
  Err("TypeError", Str(<<"Cannot read property '", property, "' of ", of>>))
\* this.dynamodbCache.method(...) before initialize
NoDynamodbCache(method) == TypeError(method, "undefined")
\* what keyValueCache.method(...) can reject with
Thrown(k, method) == IF k = Null THEN {TypeError(method, "null")} ELSE CacheThrown

\* ------------------------------------------------- KeyValueCache (wrapped)
\* PrefixingKeyValueCache: every key is prefixed once more
Prefixed(key) == CACHE_PREFIX_KEY \o key
CacheRead(c, key) == IF Prefixed(key) \in DOMAIN c THEN c[Prefixed(key)] ELSE Undef
\* mutant: set keeps the value a key already has
CacheWrite_KeepsExisting(c, key, value) ==
  [k \in DOMAIN c \cup {Prefixed(key)} |-> IF k \in DOMAIN c THEN c[k] ELSE value]

CacheWrite(c, key, value) ==
  [k \in DOMAIN c \cup {Prefixed(key)} |-> IF k = Prefixed(key) THEN value ELSE c[k]]
CacheDelete(c, key) == [k \in DOMAIN c \ {Prefixed(key)} |-> c[k]]

\* mutant: the message of the underlying error is not used
MessageOr_AlwaysFallback(err, fallback) == fallback

\* err?.message || fallback
MessageOr(err, fallback) ==
  IF err = Undef \/ err = Null THEN fallback
  ELSE IF Truthy(err.message) THEN err.message
  ELSE fallback

ApolloError(msg) == Err("ApolloError", msg)

\* mutant: the catch block of getItem rethrows what it caught
GetItemCatch_Rethrows(err) == err

\* catch (err) of getItem
GetItemCatch(err) == ApolloError(MessageOr(err, DefaultGetMessage))

\* mutant: the catch block of removeItemFromCache uses getItem's default message
EvictCatch_GetMessage(err) == ApolloError(MessageOr(err, DefaultGetMessage))

\* catch (err) of removeItemFromCache
EvictCatch(err) == ApolloError(MessageOr(err, DefaultEvictMessage))

\* mutant: the rejection is wrapped as getItem wraps it
Uncaught_Wrapped(err) == ApolloError(MessageOr(err, DefaultGetMessage))

\* an await outside any try block: the caller's promise rejects with the
\* value the awaited promise rejected with
Uncaught(err) == err

\* ------------------------------------------------------------------- steps
\* the table and the callers when the data sources have been constructed
Constructed ==
  /\ table \in [PKs -> Records \cup {Undef}]
  /\ \A pk \in PKs : table[pk] # Undef => PKOf(table[pk]) = pk
  /\ lru = [p \in Callers |-> <<>>]
  /\ pending = {}
  /\ ncalls = 0
  /\ pc = [p \in Callers |-> "idle"]
  /\ call = [p \in Callers |-> NoCall]
  /\ cacheKey = [p \in Callers |-> <<>>]
  /\ item = [p \in Callers |-> Undef]
  /\ ret = [p \in Callers |-> Undef]
  /\ exc = [p \in Callers |-> Undef]
  /\ storeCalls = [p \in Callers |-> <<>>]
  /\ cacheCalls = [p \in Callers |-> <<>>]

\* the server has initialized every data source with its cache
Init ==
  /\ Constructed
  /\ \/ cache = <<>>
     \/ \E j \in Junk : cache = CacheWrite(<<>>, JunkKey, j)
  /\ dynamodbCache = [p \in Callers |-> DynamoDBCacheImpl(p, Supplied)]

\* initialize({ context, cache }): the server calls it once per data source
Initialize(p) ==
  /\ dynamodbCache[p] = Undef
  /\ \E c \in CacheArgs :
       dynamodbCache' = [dynamodbCache EXCEPT ![p] = DynamoDBCacheImpl(p, c)]
  /\ lru' = [lru EXCEPT ![p] = <<>>]
  /\ UNCHANGED <<table, cache, pending, ncalls, pc, call, cacheKey, item, ret, exc,
                 storeCalls, cacheCalls>>

Idle(p) == pc[p] \in {"idle", "done", "failed"}

\* a caller invokes an operation: fresh locals, nothing called yet
Begin(p, name, input, ttl, firstPc) ==
  /\ Idle(p)
  /\ ncalls < MaxCalls
  /\ ncalls' = ncalls + 1
  /\ call' = [call EXCEPT ![p] = [name |-> name, input |-> input, ttl |-> ttl]]
  /\ pc' = [pc EXCEPT ![p] = firstPc]
  /\ cacheKey' = [cacheKey EXCEPT ![p] = <<>>]
  /\ item' = [item EXCEPT ![p] = Undef]
  /\ ret' = [ret EXCEPT ![p] = Undef]
  /\ exc' = [exc EXCEPT ![p] = Undef]
  /\ storeCalls' = [storeCalls EXCEPT ![p] = <<>>]
  /\ cacheCalls' = [cacheCalls EXCEPT ![p] = <<>>]
  /\ UNCHANGED <<table, cache, lru, dynamodbCache, pending>>

Resolve(p, value) ==
  /\ pc' = [pc EXCEPT ![p] = "done"]
  /\ ret' = [ret EXCEPT ![p] = value]
  /\ exc' = exc

\* mutant: the operation makes the failed call again
Reject_Retries(p, err) == UNCHANGED <<pc, exc, ret>>

Reject(p, err) ==
  /\ pc' = [pc EXCEPT ![p] = "failed"]
  /\ exc' = [exc EXCEPT ![p] = err]
  /\ ret' = ret

\* thrown: what the call rejected with, Undef when it resolved
StoreCall(op, input, ok, thrown) ==
  [op |-> op, input |-> input, ok |-> ok, thrown |-> thrown]

LogStore(p, op, ok, thrown) ==
  storeCalls' = [storeCalls EXCEPT ![p] = Append(@, StoreCall(op, call[p].input, ok, thrown))]

\* outcome: "resolved" or "rejected" for an awaited call, "unawaited" for a
\* call whose promise nobody awaits
CacheCall(op, key, value, ttl, outcome) ==
  [op |-> op, key |-> key, value |-> value, ttl |-> ttl, outcome |-> outcome,
   thrown |-> Undef]

LogCache(p, op, key, value, ttl, outcome) ==
  cacheCalls' = [cacheCalls EXCEPT ![p] = Append(@, CacheCall(op, key, value, ttl, outcome))]

\* an awaited keyValueCache call that rejected with thrown
LogCacheRejected(p, op, key, value, ttl, thrown) ==
  cacheCalls' = [cacheCalls EXCEPT ![p] =
    Append(@, [CacheCall(op, key, value, ttl, "rejected") EXCEPT !.thrown = thrown])]

\* mutant: the ttl argument is ignored
SetTtl_AlwaysDefault(ttl) == Num(TTL_SEC)

\* mutant: a ttl of 0 is replaced by the default like a missing one
SetTtl_ZeroAsDefault(ttl) == IF Truthy(ttl) THEN ttl ELSE Num(TTL_SEC)

\* setInCache(key, item, ttl = TTL_SEC): the ttl passed to keyValueCache.set
SetTtl(ttl) == IF ttl = Undef THEN Num(TTL_SEC) ELSE ttl

\* ---- getItem
GetItemBegin(p) ==
  \E key \in KeyObjs, ttl \in Ttls :
    Begin(p, "getItem", [TableName |-> tableName, Key |-> key], ttl, "get_retrieve")

\* mutant: the cached string is never returned
RetrieveFromCache_AlwaysMiss(s) == Undef

\* mutant: the cached string is returned without JSON.parse and its catch
RetrieveFromCache_Unparsed(s) == IF Truthy(s) THEN s ELSE Undef

\* retrieveFromCache(cacheKey): the cached string parsed, undefined when the
\* string is empty or absent or JSON.parse throws
RetrieveFromCache(s) ==
  IF Truthy(s)
  THEN IF JSONparse(s).ok THEN JSONparse(s).v ELSE Undef
  ELSE Undef

\* mutant: only undefined counts as a miss
IsHit_Defined(fromCache) == fromCache # Undef

\* if (itemFromCache)
IsHit(fromCache) == Truthy(fromCache)

GetItemRetrieve(p) ==
  /\ pc[p] = "get_retrieve"
  /\ IF dynamodbCache[p] = Undef
     THEN /\ Reject(p, Uncaught(NoDynamodbCache("getItem")))
          /\ UNCHANGED <<cacheKey, cacheCalls>>
     ELSE LET ck == buildCacheKey(CACHE_PREFIX_KEY, call[p].input.TableName, call[p].input.Key)
              kv == KeyValueCacheOf(p)
          IN /\ cacheKey' = [cacheKey EXCEPT ![p] = ck]
             /\ \E ok \in (IF kv = Null THEN {FALSE} ELSE BOOLEAN) :
                  LET entry == IF ok THEN CacheRead(Contents(kv), ck) ELSE Undef
                      fromCache == IF ok THEN RetrieveFromCache(entry) ELSE Undef
                  IN /\ LogCache(p, "get", ck, entry, Undef,
                                 IF ok THEN "resolved" ELSE "rejected")
                     /\ IF IsHit(fromCache)
                        THEN Resolve(p, fromCache)
                        ELSE /\ pc' = [pc EXCEPT ![p] = "get_fetch"]
                             /\ UNCHANGED <<ret, exc>>
  /\ UNCHANGED <<table, cache, lru, dynamodbCache, pending, ncalls, call, item, storeCalls>>

GetItemFetch(p) ==
  /\ pc[p] = "get_fetch"
  /\ \/ \E e \in StoreThrown :
          /\ LogStore(p, "get", FALSE, e)
          /\ Reject(p, GetItemCatch(e))
          /\ item' = item
     \/ /\ LogStore(p, "get", TRUE, Undef)
        /\ item' = [item EXCEPT ![p] = table[PKOf(call[p].input.Key)]]
        /\ pc' = [pc EXCEPT ![p] = "get_set"]
        /\ UNCHANGED <<ret, exc>>
  /\ UNCHANGED <<table, cache, lru, dynamodbCache, pending, ncalls, call, cacheKey, cacheCalls>>

GetItemSet(p) ==
  /\ pc[p] = "get_set"
  /\ LET value == JSONstringify(item[p])
         ttl == SetTtl(call[p].ttl)
         kv == KeyValueCacheOf(p)
     IN \/ \E e \in Thrown(kv, "set") :
             /\ LogCacheRejected(p, "set", cacheKey[p], value, ttl, e)
             /\ Reject(p, GetItemCatch(e))
             /\ UNCHANGED <<cache, lru>>
        \/ /\ kv # Null
           /\ LogCache(p, "set", cacheKey[p], value, ttl, "resolved")
           /\ Becomes(kv, CacheWrite(Contents(kv), cacheKey[p], value))
           /\ Resolve(p, item[p])
  /\ UNCHANGED <<table, dynamodbCache, pending, ncalls, call, cacheKey, item, storeCalls>>

\* ---- put
\* mutant: put starts with its cache write
PutFirstAwait_Cache == "put_set"

\* the first await of put: docClient.put
PutFirstAwait == "put_store"

PutBegin(p) ==
  \E r \in Records, ttl \in Ttls :
    Begin(p, "put", [TableName |-> tableName, Item |-> r], ttl, PutFirstAwait)

\* if (ttl)
PutCaches(ttl) == Truthy(ttl)

\* mutant: the whole item is used as the key, buildKey left out
PutCacheKey_WholeItem(it) == buildCacheKey(CACHE_PREFIX_KEY, tableName, it)

\* buildCacheKey(CACHE_PREFIX_KEY, this.tableName, buildKey(this.tableKeySchema, item))
PutCacheKey(it) ==
  buildCacheKey(CACHE_PREFIX_KEY, tableName, buildKey(tableKeySchema, it))

\* mutant: docClient.put is skipped when the cache holds an entry for the item
PutWrites_UnlessCached(tbl, it) ==
  IF CacheRead(cache, PutCacheKey(it)) # Undef THEN tbl ELSE [tbl EXCEPT ![PKOf(it)] = it]

\* mutant: the item does not stay in the table
PutWrites_Discarded(tbl, it) == tbl

\* the table after docClient.put(putItemInput)
PutWrites(tbl, it) == [tbl EXCEPT ![PKOf(it)] = it]

PutStore(p) ==
  /\ pc[p] = "put_store"
  /\ LET it == call[p].input.Item
     IN \/ \E e \in StoreThrown :
             /\ LogStore(p, "put", FALSE, e)
             /\ Reject(p, Uncaught(e))
             /\ UNCHANGED <<table, item, cacheKey>>
        \/ /\ LogStore(p, "put", TRUE, Undef)
           /\ table' = PutWrites(table, it)
           /\ item' = [item EXCEPT ![p] = it]
           /\ IF PutCaches(call[p].ttl)
              THEN /\ cacheKey' = [cacheKey EXCEPT ![p] = PutCacheKey(it)]
                   /\ IF dynamodbCache[p] = Undef
                      THEN Reject(p, Uncaught(NoDynamodbCache("setInCache")))
                      ELSE /\ pc' = [pc EXCEPT ![p] = "put_set"]
                           /\ UNCHANGED <<ret, exc>>
              ELSE /\ Resolve(p, it)
                   /\ cacheKey' = cacheKey
  /\ UNCHANGED <<cache, lru, dynamodbCache, pending, ncalls, call, cacheCalls>>

\* await this.dynamodbCache.setInCache(cacheKey, value, ttl) in put and update:
\* a rejection of keyValueCache.set reaches the caller as it is
AwaitSetInCache(p) ==
  /\ LET value == JSONstringify(item[p])
         ttl == SetTtl(call[p].ttl)
         kv == KeyValueCacheOf(p)
     IN \/ \E e \in Thrown(kv, "set") :
             /\ LogCacheRejected(p, "set", cacheKey[p], value, ttl, e)
             /\ Reject(p, Uncaught(e))
             /\ UNCHANGED <<cache, lru>>
        \/ /\ kv # Null
           /\ LogCache(p, "set", cacheKey[p], value, ttl, "resolved")
           /\ Becomes(kv, CacheWrite(Contents(kv), cacheKey[p], value))
           /\ Resolve(p, item[p])
  /\ UNCHANGED <<table, dynamodbCache, pending, ncalls, call, cacheKey, item, storeCalls>>

PutSet(p) ==
  /\ pc[p] = "put_set"
  /\ AwaitSetInCache(p)

\* ---- update
\* the request sets attribute v of the record under Key and names what the
\* table is to return (ReturnValues; NONE when the request leaves it out)
ReturnValuesOpts == {"NONE", "ALL_NEW", "ALL_OLD"}
\* the value an update request sets
UpdateValues == {Num(2)}

UpdateBegin(p) ==
  \E key \in KeyObjs, v \in UpdateValues, rv \in ReturnValuesOpts, ttl \in Ttls :
    Begin(p, "update",
          [TableName |-> tableName, Key |-> key, SetV |-> v, ReturnValues |-> rv],
          ttl, "update_store")

\* output.Attributes of DocumentClient.update
UpdateAttributes(old, new, rv) ==
  CASE rv = "ALL_NEW" -> new
    [] rv = "ALL_OLD" -> old
    [] rv = "NONE" -> Undef
    [] OTHER -> Undef

\* mutant: the guard tests the ttl only
UpdateCaches_IgnoresResult(updated, ttl) == Truthy(ttl)

\* if (updated && ttl)
UpdateCaches(updated, ttl) == Truthy(updated) /\ Truthy(ttl)

\* buildCacheKey(CACHE_PREFIX_KEY, this.tableName, updateItemInput.Key)
UpdateCacheKey(in) == buildCacheKey(CACHE_PREFIX_KEY, tableName, in.Key)

UpdateStore(p) ==
  /\ pc[p] = "update_store"
  /\ LET in == call[p].input
         pk == PKOf(in.Key)
         new == Rec(pk, in.SetV)
         updated == UpdateAttributes(table[pk], new, in.ReturnValues)
     IN \/ \E e \in StoreThrown :
             /\ LogStore(p, "update", FALSE, e)
             /\ Reject(p, Uncaught(e))
             /\ UNCHANGED <<table, item, cacheKey>>
        \/ /\ LogStore(p, "update", TRUE, Undef)
           /\ table' = [table EXCEPT ![pk] = new]
           /\ item' = [item EXCEPT ![p] = updated]
           /\ IF UpdateCaches(updated, call[p].ttl)
              THEN /\ cacheKey' = [cacheKey EXCEPT ![p] = UpdateCacheKey(in)]
                   /\ IF dynamodbCache[p] = Undef
                      THEN Reject(p, Uncaught(NoDynamodbCache("setInCache")))
                      ELSE /\ pc' = [pc EXCEPT ![p] = "update_set"]
                           /\ UNCHANGED <<ret, exc>>
              ELSE /\ Resolve(p, updated)
                   /\ cacheKey' = cacheKey
  /\ UNCHANGED <<cache, lru, dynamodbCache, pending, ncalls, call, cacheCalls>>

UpdateSet(p) ==
  /\ pc[p] = "update_set"
  /\ AwaitSetInCache(p)

\* ---- delete
DeleteBegin(p) ==
  \E key \in KeyObjs, rv \in {"NONE", "ALL_OLD"} :
    Begin(p, "delete", [TableName |-> tableName, Key |-> key, ReturnValues |-> rv],
          Undef, "delete_store")

DeleteStore(p) ==
  /\ pc[p] = "delete_store"
  /\ LET in == call[p].input
         pk == PKOf(in.Key)
     IN \/ \E e \in StoreThrown :
             /\ LogStore(p, "delete", FALSE, e)
             /\ Reject(p, Uncaught(e))
             /\ UNCHANGED <<table, item>>
        \/ /\ LogStore(p, "delete", TRUE, Undef)
           /\ table' = [table EXCEPT ![pk] = Undef]
           /\ item' = [item EXCEPT ![p] = IF in.ReturnValues = "ALL_OLD" THEN table[pk] ELSE Undef]
           /\ IF dynamodbCache[p] = Undef
              THEN Reject(p, Uncaught(NoDynamodbCache("removeItemFromCache")))
              ELSE /\ pc' = [pc EXCEPT ![p] = "delete_evict"]
                   /\ UNCHANGED <<ret, exc>>
  /\ UNCHANGED <<cache, lru, dynamodbCache, pending, ncalls, call, cacheKey, cacheCalls>>

\* mutant: the key is rebuilt in key-schema order before it is evicted
EvictCacheKey_SchemaOrder(tbl, key) ==
  buildCacheKey(CACHE_PREFIX_KEY, tbl, buildKey(tableKeySchema, key))

\* removeItemFromCache(tableName, key): the key it evicts
EvictCacheKey(tbl, key) == buildCacheKey(CACHE_PREFIX_KEY, tbl, key)

\* removeItemFromCache(this.tableName, deleteItemInput.Key)
DeleteEvict(p) ==
  /\ pc[p] = "delete_evict"
  /\ LET ck == EvictCacheKey(tableName, call[p].input.Key)
         kv == KeyValueCacheOf(p)
     IN /\ cacheKey' = [cacheKey EXCEPT ![p] = ck]
        /\ \/ \E e \in Thrown(kv, "delete") :
                /\ LogCacheRejected(p, "delete", ck, Undef, Undef, e)
                /\ Reject(p, EvictCatch(e))
                /\ UNCHANGED <<cache, lru>>
           \/ /\ kv # Null
              /\ LogCache(p, "delete", ck, Undef, Undef, "resolved")
              /\ Becomes(kv, CacheDelete(Contents(kv), ck))
              /\ Resolve(p, item[p])
  /\ UNCHANGED <<table, dynamodbCache, pending, ncalls, call, item, storeCalls>>

\* ---- query and scan
\* the request selects primary keys (key condition / filter) and may project
\* the records onto a list of attributes (ProjectionExpression)
Projections == {Undef, Obj(<<AttrId, AttrV>>)}
Selections == {{PKSeq[1]}, PKs}
\* a scan reads the whole table
ScanSelections == {PKs}

Project(r, proj) ==
  IF proj = Undef THEN r
  ELSE Obj(SelectSeq(r.e, LAMBDA kv : \E i \in 1..Len(proj.e) : proj.e[i] = kv[1]))

\* output.Items: the selected records the table holds, in table order
RECURSIVE Items(_, _, _, _)
Items(tbl, sel, proj, n) ==
  IF n = 0 THEN <<>>
  ELSE IF PKSeq[n] \in sel /\ tbl[PKSeq[n]] # Undef
       THEN Append(Items(tbl, sel, proj, n - 1), Project(tbl[PKSeq[n]], proj))
       ELSE Items(tbl, sel, proj, n - 1)

QueryBegin(p) ==
  \E sel \in Selections, proj \in Projections, ttl \in Ttls :
    Begin(p, "query", [TableName |-> tableName, Select |-> sel, Projection |-> proj],
          ttl, "query_store")

ScanBegin(p) ==
  \E sel \in ScanSelections, proj \in Projections, ttl \in Ttls :
    Begin(p, "scan", [TableName |-> tableName, Select |-> sel, Projection |-> proj],
          ttl, "scan_store")

\* mutant: forEach stops after the first entry
SetCalls_FirstOnly(map, ttl) ==
  [i \in 1..(IF Len(map) = 0 THEN 0 ELSE 1) |->
    CacheCall("set", map[i][1], JSONstringify(map[i][2]), SetTtl(ttl), "unawaited")]

\* setItemsInCache(items, ttl): forEach starts one setInCache per entry and
\* awaits none; each keyValueCache.set is issued and settles later
SetCalls(map, ttl) ==
  [i \in 1..Len(map) |->
    CacheCall("set", map[i][1], JSONstringify(map[i][2]), SetTtl(ttl), "unawaited")]

\* the calls issued on the KeyValueCache instance k that have not settled
Issued(calls, k) ==
  {[key |-> calls[i].key, value |-> calls[i].value, ttl |-> calls[i].ttl, cache |-> k] :
     i \in 1..Len(calls)}
\* keyValueCache.set on null: every call throws at once, nobody awaits it
NullSetCalls(calls) ==
  [i \in 1..Len(calls) |-> [calls[i] EXCEPT !.thrown = TypeError("set", "null")]]

\* mutant: the guard tests the result only
ItemsCached_IgnoresTtl(items, ttl) == Len(items) # 0

\* if (items.length && ttl)
ItemsCached(items, ttl) == Len(items) # 0 /\ Truthy(ttl)

\* the body shared by query and scan after the docClient call
QueryOrScanStore(p, op) ==
  /\ LET in == call[p].input
         items == Items(table, in.Select, in.Projection, Len(PKSeq))
         map == buildItemsCacheMap(CACHE_PREFIX_KEY, tableName, tableKeySchema, items)
         calls == SetCalls(map, call[p].ttl)
     IN \/ \E e \in StoreThrown :
             /\ LogStore(p, op, FALSE, e)
             /\ Reject(p, Uncaught(e))
             /\ UNCHANGED <<item, pending, cacheCalls>>
        \/ /\ LogStore(p, op, TRUE, Undef)
           /\ item' = [item EXCEPT ![p] = items]
           /\ IF ~ItemsCached(items, call[p].ttl)
              THEN /\ Resolve(p, items)
                   /\ UNCHANGED <<pending, cacheCalls>>
              ELSE IF dynamodbCache[p] = Undef
              THEN /\ Reject(p, Uncaught(NoDynamodbCache("setItemsInCache")))
                   /\ UNCHANGED <<pending, cacheCalls>>
              ELSE IF KeyValueCacheOf(p) = Null
              THEN /\ cacheCalls' = [cacheCalls EXCEPT ![p] = @ \o NullSetCalls(calls)]
                   /\ pending' = pending
                   /\ Resolve(p, items)
              ELSE /\ Cardinality(pending \cup Issued(calls, KeyValueCacheOf(p))) <= MaxPending
                   /\ pending' = pending \cup Issued(calls, KeyValueCacheOf(p))
                   /\ cacheCalls' = [cacheCalls EXCEPT ![p] = @ \o calls]
                   /\ Resolve(p, items)
  /\ UNCHANGED <<table, cache, lru, dynamodbCache, ncalls, call, cacheKey>>

QueryStore(p) ==
  /\ pc[p] = "query_store"
  /\ QueryOrScanStore(p, "query")

ScanStore(p) ==
  /\ pc[p] = "scan_store"
  /\ QueryOrScanStore(p, "scan")

\* a keyValueCache.set issued by setItemsInCache settles: it takes effect, or
\* it rejects and nobody handles the rejection
SetSettles ==
  \E w \in pending :
    /\ pending' = pending \ {w}
    /\ \/ Becomes(w.cache, CacheWrite(Contents(w.cache), w.key, w.value))
       \/ UNCHANGED <<cache, lru>>
    /\ UNCHANGED <<table, dynamodbCache, ncalls, pc, call, cacheKey, item, ret, exc, storeCalls, cacheCalls>>

Next ==
  \/ \E p \in Procs :
       \/ GetItemBegin(p)
       \/ GetItemRetrieve(p)
       \/ GetItemFetch(p)
       \/ GetItemSet(p)
       \/ PutBegin(p)
       \/ PutStore(p)
       \/ PutSet(p)
       \/ UpdateBegin(p)
       \/ UpdateStore(p)
       \/ UpdateSet(p)
       \/ DeleteBegin(p)
       \/ DeleteStore(p)
       \/ DeleteEvict(p)
       \/ QueryBegin(p)
       \/ QueryStore(p)
       \/ ScanBegin(p)
       \/ ScanStore(p)
  \/ SetSettles

Spec == Init /\ [][Next]_vars

\* the program starts on a cache that holds nothing
InitEmptyCache == Init /\ cache = <<>>

\* ---- a getItem and a put that run concurrently
Reader == "p1"
Writer == "p2"

NextRace ==
  \/ GetItemBegin(Reader)
  \/ GetItemRetrieve(Reader)
  \/ GetItemFetch(Reader)
  \/ GetItemSet(Reader)
  \/ PutBegin(Writer)
  \/ PutStore(Writer)
  \/ PutSet(Writer)

SpecRace == InitEmptyCache /\ [][NextRace]_vars

\* ---- the key builders of utils.ts, called on their own
\* the arguments the callers pass
UPrefixes == {<<"c", ":">>, CACHE_PREFIX_KEY}
UTables == {<<"t">>}
UIdVals == {Str(<<"x">>), Str(<<"x", ":", "ts", "-", "2020">>), Num(1), Str(<<"1">>)}
UTsVals == {Str(<<"2020">>), Str(<<"2020", ":", "ts", "-", "2020">>)}
UKeys ==
  {Obj(<<<<AttrId, i>>>>) : i \in UIdVals}
    \cup {Obj(<<<<AttrId, i>>, <<AttrTs, t>>>>) : i \in UIdVals, t \in UTsVals}
    \cup {Obj(<<<<AttrTs, t>>, <<AttrId, i>>>>) : i \in UIdVals, t \in UTsVals}
USchemas == {<<AttrId>>, <<AttrId, AttrTs>>, <<AttrTs, AttrId>>}
UX == Str(<<"x">>)
U2020 == Str(<<"2020">>)
\* records: two that differ in a non-key attribute, one that lists its
\* attributes in another order, one without ts, two with ':' in a key value
UItems ==
  {Obj(<<<<AttrId, UX>>, <<AttrTs, U2020>>, <<AttrV, Num(1)>>>>),
   Obj(<<<<AttrId, UX>>, <<AttrTs, U2020>>, <<AttrV, Num(2)>>>>),
   Obj(<<<<AttrV, Num(1)>>, <<AttrTs, U2020>>, <<AttrId, UX>>>>),
   Obj(<<<<AttrId, UX>>, <<AttrV, Num(1)>>>>),
   Obj(<<<<AttrId, Str(<<"x", ":", "ts", "-", "2020">>)>>, <<AttrTs, U2020>>, <<AttrV, Num(1)>>>>),
   Obj(<<<<AttrId, UX>>, <<AttrTs, Str(<<"2020", ":", "ts", "-", "2020">>)>>, <<AttrV, Num(1)>>>>)}
\* the records of a result list, and the longest list
UListItems ==
  {Obj(<<<<AttrId, UX>>, <<AttrTs, U2020>>, <<AttrV, Num(1)>>>>),
   Obj(<<<<AttrId, UX>>, <<AttrTs, U2020>>, <<AttrV, Num(2)>>>>),
   Obj(<<<<AttrId, Str(<<"1">>)>>, <<AttrTs, U2020>>, <<AttrV, Num(1)>>>>)}
MaxItems == 2
UItemLists == UNION {[1..n -> UListItems] : n \in 0..MaxItems}
UListSchemas == {<<AttrId>>, <<AttrId, AttrTs>>}

UtilCall(name, input) == [name |-> name, input |-> input, ttl |-> Undef]
UtilCalls ==
  {UtilCall("buildCacheKey", [cachePrefix |-> c, tableName |-> t, key |-> k]) :
     c \in UPrefixes, t \in UTables, k \in UKeys}
    \cup {UtilCall("buildKey", [keySchema |-> s, item |-> r]) : s \in USchemas, r \in UItems}
    \cup {UtilCall("itemCacheKey",
                   [cachePrefix |-> c, tableName |-> t, keySchema |-> s, item |-> r]) :
            c \in UPrefixes, t \in UTables, s \in USchemas, r \in UItems}
    \cup {UtilCall("buildItemsCacheMap",
                   [cachePrefix |-> CACHE_PREFIX_KEY, tableName |-> t, keySchema |-> s,
                    items |-> l]) :
            t \in UTables, s \in UListSchemas, l \in UItemLists}

\* mutant: the item itself is used as the key
ItemCacheKey_WholeItem(cachePrefix, tbl, keySchema, it) == buildCacheKey(cachePrefix, tbl, it)

\* const key = buildKey(keySchema, curr); buildCacheKey(cachePrefix, tableName, key)
ItemCacheKey(cachePrefix, tbl, keySchema, it) ==
  buildCacheKey(cachePrefix, tbl, buildKey(keySchema, it))

InitUtils ==
  /\ table = [pk \in PKs |-> Undef]
  /\ cache = <<>>
  /\ lru = [p \in Callers |-> <<>>]
  /\ dynamodbCache = [p \in Callers |-> DynamoDBCacheImpl(p, Supplied)]
  /\ pending = {}
  /\ ncalls = 0
  /\ pc = [p \in Callers |-> "idle"]
  /\ call \in [Callers -> UtilCalls]
  /\ cacheKey = [p \in Callers |-> <<>>]
  /\ item = [p \in Callers |-> Undef]
  /\ ret = [p \in Callers |-> Undef]
  /\ exc = [p \in Callers |-> Undef]
  /\ storeCalls = [p \in Callers |-> <<>>]
  /\ cacheCalls = [p \in Callers |-> <<>>]

\* the function returns value to caller p
Returns(p, name, value) ==
  /\ pc[p] = "idle"
  /\ call[p].name = name
  /\ Resolve(p, value)
  /\ UNCHANGED <<table, cache, lru, dynamodbCache, pending, ncalls, call, cacheKey, item, storeCalls, cacheCalls>>

BuildCacheKeyCall(p) ==
  Returns(p, "buildCacheKey",
          Str(buildCacheKey(call[p].input.cachePrefix, call[p].input.tableName,
                            call[p].input.key)))

BuildKeyCall(p) ==
  Returns(p, "buildKey", buildKey(call[p].input.keySchema, call[p].input.item))

ItemCacheKeyCall(p) ==
  Returns(p, "itemCacheKey",
          Str(ItemCacheKey(call[p].input.cachePrefix, call[p].input.tableName,
                           call[p].input.keySchema, call[p].input.item)))

BuildItemsCacheMapCall(p) ==
  Returns(p, "buildItemsCacheMap",
          Obj(buildItemsCacheMap(call[p].input.cachePrefix, call[p].input.tableName,
                                 call[p].input.keySchema, call[p].input.items)))

NextUtils ==
  \E p \in Callers :
    \/ BuildCacheKeyCall(p)
    \/ BuildKeyCall(p)
    \/ ItemCacheKeyCall(p)
    \/ BuildItemsCacheMapCall(p)

SpecUtils == InitUtils /\ [][NextUtils]_vars

\* ---- a cache that loses entries
\* the cache backend drops an entry: expiry of its ttl, LRU eviction, restart
CacheLost ==
  /\ \E k \in DOMAIN cache : cache' = [j \in DOMAIN cache \ {k} |-> cache[j]]
  /\ UNCHANGED <<table, lru, dynamodbCache, pending, ncalls, pc, call, cacheKey, item, ret,
                 exc, storeCalls, cacheCalls>>

NextLossy == Next \/ CacheLost

SpecLossy == InitEmptyCache /\ [][NextLossy]_vars

\* ---- operations on a data source that has not been initialized yet
InitUninitialized ==
  /\ Constructed
  /\ cache = <<>>
  /\ dynamodbCache = [p \in Callers |-> Undef]

NextUninitialized ==
  \/ Next
  \/ \E p \in Procs : Initialize(p)

SpecUninitialized == InitUninitialized /\ [][NextUninitialized]_vars

\* ---- two data sources on one table, each initialized with or without a cache
InitTwoSources == InitUninitialized /\ table = [pk \in PKs |-> Undef]

NextTwoSources ==
  \/ \E p \in Callers : Initialize(p)
  \/ GetItemBegin(Reader)
  \/ GetItemRetrieve(Reader)
  \/ GetItemFetch(Reader)
  \/ GetItemSet(Reader)
  \/ PutBegin(Writer)
  \/ PutStore(Writer)
  \/ PutSet(Writer)

SpecTwoSources == InitTwoSources /\ [][NextTwoSources]_vars

\* ---- a write and then reads, one operation at a time
\* the cache after getItem has fetched the first n records of the table
RECURSIVE Warm(_, _)
Warm(tbl, n) ==
  IF n = 0 THEN <<>>
  ELSE IF tbl[PKSeq[n]] = Undef THEN Warm(tbl, n - 1)
  ELSE CacheWrite(Warm(tbl, n - 1),
                  buildCacheKey(CACHE_PREFIX_KEY, tableName,
                                Obj(<<<<AttrId, PKSeq[n][1]>>, <<AttrTs, PKSeq[n][2]>>>>)),
                  JSONstringify(tbl[PKSeq[n]]))

\* the cache holds nothing, or the records earlier getItem calls fetched
InitSequential ==
  /\ Constructed
  /\ cache \in {<<>>, Warm(table, Len(PKSeq))}
  /\ dynamodbCache = [p \in Callers |-> DynamoDBCacheImpl(p, Supplied)]

\* the writer's operations come first, the reader's follow a completed write;
\* no operation starts while another is in flight
NextSequential ==
  \/ /\ pc[Reader] = "idle"
     /\ \/ PutBegin(Writer)
        \/ UpdateBegin(Writer)
  \/ PutStore(Writer)
  \/ PutSet(Writer)
  \/ UpdateStore(Writer)
  \/ UpdateSet(Writer)
  \/ /\ pc[Writer] = "done"
     /\ GetItemBegin(Reader)
  \/ GetItemRetrieve(Reader)
  \/ GetItemFetch(Reader)
  \/ GetItemSet(Reader)

SpecSequential == InitSequential /\ [][NextSequential]_vars

\* ---- a getItem and a delete that run concurrently
NextDeleteRace ==
  \/ GetItemBegin(Reader)
  \/ GetItemRetrieve(Reader)
  \/ GetItemFetch(Reader)
  \/ GetItemSet(Reader)
  \/ DeleteBegin(Writer)
  \/ DeleteStore(Writer)
  \/ DeleteEvict(Writer)

SpecDeleteRace == InitEmptyCache /\ [][NextDeleteRace]_vars

\* ---- getItem calls only: the table stays as it is
NextGetItems ==
  \E p \in Procs :
    \/ GetItemBegin(p)
    \/ GetItemRetrieve(p)
    \/ GetItemFetch(p)
    \/ GetItemSet(p)

SpecGetItems == Init /\ [][NextGetItems]_vars

\* ---- put and getItem on a table whose key values contain ':' and '-'
\* both key attributes of the table are strings
DelimitedPKs == {i \in UIdVals : i.t = "string"} \X UTsVals
DelimitedRecords == {Rec(pk, Num(1)) : pk \in DelimitedPKs}
DelimitedKeys == {Obj(<<<<AttrId, pk[1]>>, <<AttrTs, pk[2]>>>>) : pk \in DelimitedPKs}

InitDelimited ==
  /\ table = [pk \in DelimitedPKs |-> Undef]
  /\ cache = <<>>
  /\ lru = [p \in Callers |-> <<>>]
  /\ dynamodbCache = [p \in Callers |-> DynamoDBCacheImpl(p, Supplied)]
  /\ pending = {}
  /\ ncalls = 0
  /\ pc = [p \in Callers |-> "idle"]
  /\ call = [p \in Callers |-> NoCall]
  /\ cacheKey = [p \in Callers |-> <<>>]
  /\ item = [p \in Callers |-> Undef]
  /\ ret = [p \in Callers |-> Undef]
  /\ exc = [p \in Callers |-> Undef]
  /\ storeCalls = [p \in Callers |-> <<>>]
  /\ cacheCalls = [p \in Callers |-> <<>>]

DelimitedPutBegin(p) ==
  \E r \in DelimitedRecords, ttl \in Ttls :
    Begin(p, "put", [TableName |-> tableName, Item |-> r], ttl, PutFirstAwait)

DelimitedGetItemBegin(p) ==
  \E key \in DelimitedKeys, ttl \in Ttls :
    Begin(p, "getItem", [TableName |-> tableName, Key |-> key], ttl, "get_retrieve")

NextDelimited ==
  \E p \in Procs :
    \/ DelimitedPutBegin(p)
    \/ PutStore(p)
    \/ PutSet(p)
    \/ DelimitedGetItemBegin(p)
    \/ GetItemRetrieve(p)
    \/ GetItemFetch(p)
    \/ GetItemSet(p)

SpecDelimited == InitDelimited /\ [][NextDelimited]_vars

\* ---- DynamoDBCacheImpl.setInCache and setItemsInCache, called on their own
InitNoRecords == InitEmptyCache /\ table = [pk \in PKs |-> Undef]

\* the maps callers pass to setItemsInCache: cache key -> record
CacheMaps ==
  {buildItemsCacheMap(CACHE_PREFIX_KEY, tableName, tableKeySchema, l) :
     l \in UNION {[1..n -> Records] : n \in 0..MaxItems}}

SetInCacheBegin(p) ==
  \E r \in Records, ttl \in Ttls :
    Begin(p, "setInCache", [key |-> PutCacheKey(r), item |-> r], ttl, "set_in_cache")

\* return await this.keyValueCache.set(key, JSON.stringify(item), { ttl })
SetInCacheSet(p) ==
  /\ pc[p] = "set_in_cache"
  /\ LET in == call[p].input
         value == JSONstringify(in.item)
         ttl == SetTtl(call[p].ttl)
         kv == KeyValueCacheOf(p)
     IN \/ \E e \in Thrown(kv, "set") :
             /\ LogCacheRejected(p, "set", in.key, value, ttl, e)
             /\ Reject(p, Uncaught(e))
             /\ UNCHANGED <<cache, lru>>
        \/ /\ kv # Null
           /\ LogCache(p, "set", in.key, value, ttl, "resolved")
           /\ Becomes(kv, CacheWrite(Contents(kv), in.key, value))
           /\ Resolve(p, Undef)
  /\ UNCHANGED <<table, dynamodbCache, pending, ncalls, call, cacheKey, item, storeCalls>>

SetItemsInCacheBegin(p) ==
  \E map \in CacheMaps, ttl \in Ttls :
    Begin(p, "setItemsInCache", [items |-> Obj(map)], ttl, "set_items")

\* return Object.entries(items).forEach(async (item) => ...): undefined, at once
SetItemsInCacheRun(p) ==
  /\ pc[p] = "set_items"
  /\ LET calls == SetCalls(call[p].input.items.e, call[p].ttl)
         kv == KeyValueCacheOf(p)
     IN IF kv = Null
        THEN /\ cacheCalls' = [cacheCalls EXCEPT ![p] = @ \o NullSetCalls(calls)]
             /\ pending' = pending
        ELSE /\ Cardinality(pending \cup Issued(calls, kv)) <= MaxPending
             /\ pending' = pending \cup Issued(calls, kv)
             /\ cacheCalls' = [cacheCalls EXCEPT ![p] = @ \o calls]
  /\ Resolve(p, Undef)
  /\ UNCHANGED <<table, cache, lru, dynamodbCache, ncalls, call, cacheKey, item, storeCalls>>

NextCache ==
  \/ \E p \in Procs :
       \/ SetInCacheBegin(p)
       \/ SetInCacheSet(p)
       \/ SetItemsInCacheBegin(p)
       \/ SetItemsInCacheRun(p)
  \/ SetSettles

SpecCache == InitNoRecords /\ [][NextCache]_vars

\* =============================================================== properties
\* the calls of one operation, read from its log
IsGetItem(p) == call[p].name = "getItem"
\* getItem's keyValueCache.get has settled
HasRead(p) == IsGetItem(p) /\ Len(cacheCalls[p]) >= 1
ReadOk(p) == cacheCalls[p][1].outcome = "resolved"
ReadEntry(p) == cacheCalls[p][1].value
\* the cache key getItem derives from its request
GetDerivedKey(p) ==
  CACHE_PREFIX_KEY \o call[p].input.TableName \o KeysStr(call[p].input.Key.e)
\* a non-empty string that JSON.parse accepts
ParseableNonEmpty(s) == s.t \in {"string", "json"} /\ Truthy(s) /\ JSONparse(s).ok
\* the read found a parseable, non-empty entry
ReadParseable(p) == HasRead(p) /\ ReadOk(p) /\ ParseableNonEmpty(ReadEntry(p))
\* ... that deserializes to a truthy value (every record is one)
ReadHit(p) == ReadParseable(p) /\ Truthy(JSONparse(ReadEntry(p)).v)
ReadMiss(p) == HasRead(p) /\ ~ReadHit(p)

\* the ending of a getItem that returned what the cache held
ReturnedFromCache(p) ==
  /\ pc[p] = "done"
  /\ ret[p] = JSONparse(ReadEntry(p)).v
  /\ storeCalls[p] = <<>>
  /\ Len(cacheCalls[p]) = 1
  /\ cacheCalls[p][1].key = GetDerivedKey(p)

\* C1 as stated: whenever getItem's cache read found a parseable, non-empty
\* entry under the derived key, getItem has returned the deserialized entry
\* with no store call and no cache write.
C1_AnyParseableEntryIsHit ==
  \A p \in Procs : ReadParseable(p) => ReturnedFromCache(p)

\* C1 amended: whenever getItem's cache read found a parseable, non-empty entry
\* that deserializes to a truthy value, getItem has returned the deserialized
\* entry with no store call and no cache write, for every key and ttl.
C1_HitReturnsCached ==
  \A p \in Procs : ReadHit(p) => ReturnedFromCache(p)

\* C1 witness: a getItem that returned a cached record
C1_Witness ==
  \E p \in Procs : ReadHit(p) /\ pc[p] = "done" /\ ret[p] \in Records

\* C2: a getItem whose cache read missed calls the store at most once, and when
\* it has returned it has called docClient.get exactly once with the caller's
\* request, returns the record the table holds, and, when a ttl was given, has
\* made exactly one keyValueCache.set, under the derived key, of the fetched
\* record, with that ttl, before returning.
C2_MissFetchesOnceAndCaches ==
  \A p \in Procs :
    ReadMiss(p) =>
      /\ Len(storeCalls[p]) <= 1
      /\ pc[p] = "done" =>
           /\ storeCalls[p] = <<StoreCall("get", call[p].input, TRUE, Undef)>>
           /\ ret[p] = table[PKOf(call[p].input.Key)]
           /\ call[p].ttl # Undef =>
                /\ Len(cacheCalls[p]) = 2
                /\ cacheCalls[p][2] =
                     CacheCall("set", GetDerivedKey(p), JSONstringify(ret[p]),
                               call[p].ttl, "resolved")

\* C2 witness: a getItem with a ttl that missed and returned a fetched record
C2_Witness ==
  \E p \in Procs :
    /\ ReadMiss(p) /\ pc[p] = "done"
    /\ call[p].ttl = Num(60) /\ ret[p] \in Records

\* C3 as stated: an operation called without a ttl never writes to the cache.
C3_NoTtlNoCacheWrite ==
  \A p \in Procs :
    (call[p].name \in {"getItem", "query", "scan", "put", "update"} /\ call[p].ttl = Undef)
      => \A i \in 1..Len(cacheCalls[p]) :
           ~(cacheCalls[p][i].op = "set" /\ cacheCalls[p][i].outcome = "resolved")

\* ---- put, update, delete, query, scan
\* the cache key of a record or key: prefix, table, then the key-schema
\* attributes in schema order
SchemaKeyString(o) ==
  CACHE_PREFIX_KEY \o tableName
    \o <<":">> \o AttrId \o <<"-">> \o TemplateStr(Prop(o.e, AttrId))
    \o <<":">> \o AttrTs \o <<"-">> \o TemplateStr(Prop(o.e, AttrTs))
\* the cache key of a Key object with its attributes in the caller's order
RequestKeyString(key) == CACHE_PREFIX_KEY \o tableName \o KeysStr(key.e)
NonZeroTtl(ttl) == ttl # Undef /\ ttl # Num(0)
OneStoreCall(p, op) == storeCalls[p] = <<StoreCall(op, call[p].input, TRUE, Undef)>>

\* what C4 says of a put that has returned, for a given reading of
\* "a ttl is supplied"
PutContract(p, supplied) ==
  /\ OneStoreCall(p, "put")
  /\ ret[p] = call[p].input.Item
  /\ supplied <=> Len(cacheCalls[p]) = 1
  /\ Len(cacheCalls[p]) <= 1
  /\ Len(cacheCalls[p]) = 1 =>
       cacheCalls[p][1] =
         CacheCall("set", SchemaKeyString(call[p].input.Item),
                   JsonText(call[p].input.Item), call[p].ttl, "resolved")

\* C4 as stated: a put that has returned issued exactly one store write and
\* wrote a cache entry iff a ttl was supplied, under the schema-derived key of
\* the written record, holding that record with that ttl, and returned the
\* record as given.
C4_PutCachesIffTtlSupplied ==
  \A p \in Procs :
    (call[p].name = "put" /\ pc[p] = "done") => PutContract(p, call[p].ttl # Undef)

\* C4 amended: as C4, with "iff a non-zero ttl is supplied"; every put issues
\* at most one store write.
C4_PutCachesIffTtlNonZero ==
  \A p \in Procs :
    call[p].name = "put" =>
      /\ Len(storeCalls[p]) <= 1
      /\ pc[p] = "done" => PutContract(p, NonZeroTtl(call[p].ttl))

\* C4 witness: a put with a ttl that wrote its cache entry and returned
C4_Witness ==
  \E p \in Procs :
    /\ call[p].name = "put" /\ pc[p] = "done" /\ call[p].ttl = Num(60)
    /\ Len(cacheCalls[p]) = 1 /\ table[PKOf(ret[p])] = ret[p]

\* what C5 says of an update that has returned
UpdateContract(p, supplied) ==
  /\ OneStoreCall(p, "update")
  /\ call[p].input.ReturnValues = "ALL_NEW" => ret[p] = table[PKOf(call[p].input.Key)]
  /\ (supplied /\ ret[p] # Undef) <=> Len(cacheCalls[p]) = 1
  /\ Len(cacheCalls[p]) <= 1
  /\ Len(cacheCalls[p]) = 1 =>
       cacheCalls[p][1] =
         CacheCall("set", RequestKeyString(call[p].input.Key), JsonText(ret[p]),
                   call[p].ttl, "resolved")
  /\ ret[p] = Undef => cacheCalls[p] = <<>>

\* C5 as stated: an update that has returned wrote a cache entry iff a ttl was
\* supplied and the store returned a record; the entry is keyed by the
\* request's Key as given and holds the returned record; with no returned
\* record update returns that absence and makes no cache call.
C5_UpdateCachesIffTtlSupplied ==
  \A p \in Procs :
    (call[p].name = "update" /\ pc[p] = "done") => UpdateContract(p, call[p].ttl # Undef)

\* C5 amended: as C5, with "iff a non-zero ttl is supplied and the store
\* returned a record".
C5_UpdateCachesIffTtlNonZero ==
  \A p \in Procs :
    (call[p].name = "update" /\ pc[p] = "done") => UpdateContract(p, NonZeroTtl(call[p].ttl))

\* C5 witness: an update with a ttl whose Key lists ts before id, cached under
\* that Key's own string
C5_Witness ==
  \E p \in Procs :
    /\ call[p].name = "update" /\ pc[p] = "done" /\ ret[p] \in Records
    /\ Len(cacheCalls[p]) = 1
    /\ cacheCalls[p][1].key # SchemaKeyString(call[p].input.Key)

\* C6: delete makes at most one keyValueCache.delete, only after its store
\* delete succeeded, for the key string of the request's Key; a delete whose
\* store call succeeded has made exactly one eviction attempt once it ends,
\* whether or not the store returned a record; a delete whose store call
\* failed ends failed with no eviction attempt.
C6_DeleteEvictsOnceAfterStore ==
  \A p \in Procs :
    call[p].name = "delete" =>
      /\ Len(storeCalls[p]) <= 1 /\ Len(cacheCalls[p]) <= 1
      /\ cacheCalls[p] # <<>> =>
           /\ OneStoreCall(p, "delete")
           /\ cacheCalls[p][1].op = "delete"
           /\ cacheCalls[p][1].key = RequestKeyString(call[p].input.Key)
      /\ (storeCalls[p] # <<>> /\ storeCalls[p][1].ok) =>
           /\ pc[p] \in {"delete_evict", "done", "failed"}
           /\ pc[p] # "delete_evict" => Len(cacheCalls[p]) = 1
      /\ (storeCalls[p] # <<>> /\ ~storeCalls[p][1].ok) =>
           pc[p] = "failed" /\ cacheCalls[p] = <<>>
      /\ pc[p] = "done" => cacheCalls[p][1].outcome = "resolved"

\* C6 witness: a delete that evicted although the store returned no record
C6_Witness ==
  \E p \in Procs :
    /\ call[p].name = "delete" /\ pc[p] = "done" /\ ret[p] = Undef
    /\ Len(cacheCalls[p]) = 1

\* what a bulk read has issued, read from its log: entry i of the log is a set
\* of record j
IsBulk(p) == call[p].name \in {"query", "scan"}
WritesRecord(c, r, ttl) ==
  c = CacheCall("set", SchemaKeyString(r), JsonText(r), ttl, "unawaited")

\* C7 as stated: a query or scan called with a ttl that returned N > 0 records
\* has issued exactly N cache writes, the i-th keyed by the schema-derived key
\* of the i-th record and holding it with the given ttl.
C7_BulkWritesOnePerRecord ==
  \A p \in Procs :
    (IsBulk(p) /\ pc[p] = "done" /\ call[p].ttl # Undef /\ Len(ret[p]) > 0) =>
      /\ Len(cacheCalls[p]) = Len(ret[p])
      /\ \A i \in 1..Len(ret[p]) : WritesRecord(cacheCalls[p][i], ret[p][i], call[p].ttl)

\* C7 amended: a query or scan called with a non-zero ttl that returned N > 0
\* records has issued exactly one cache write per distinct schema-derived cache
\* key of the returned records (N writes when those keys are pairwise
\* distinct), each holding the last returned record with that key, with the
\* given ttl.
C7_BulkWritesOnePerKey ==
  \A p \in Procs :
    (IsBulk(p) /\ pc[p] = "done" /\ NonZeroTtl(call[p].ttl) /\ Len(ret[p]) > 0) =>
      LET keys == {SchemaKeyString(ret[p][j]) : j \in 1..Len(ret[p])}
      IN /\ Len(cacheCalls[p]) = Cardinality(keys)
         /\ {cacheCalls[p][i].key : i \in 1..Len(cacheCalls[p])} = keys
         /\ \A i \in 1..Len(cacheCalls[p]) :
              \E j \in 1..Len(ret[p]) :
                /\ WritesRecord(cacheCalls[p][i], ret[p][j], call[p].ttl)
                /\ \A k \in (j + 1)..Len(ret[p]) :
                     SchemaKeyString(ret[p][k]) # cacheCalls[p][i].key

\* C7 witness: a query or scan with a ttl that returned two records with
\* different keys and issued two cache writes
C7_Witness ==
  \E p \in Procs :
    /\ IsBulk(p) /\ pc[p] = "done" /\ call[p].ttl = Num(60)
    /\ Len(ret[p]) = 2 /\ Len(cacheCalls[p]) = 2

\* C8: the step in which a query or scan returns, when no ttl was supplied or
\* the result is empty, leaves the cache and the set of unsettled cache writes
\* as they were, makes no cache call, and returns exactly the records the
\* store returned.
C8_BulkFrame ==
  [][\A p \in Procs :
       (/\ pc[p] \in {"query_store", "scan_store"}
        /\ pc'[p] = "done"
        /\ (call[p].ttl = Undef \/ Len(ret'[p]) = 0))
         => /\ cache' = cache
            /\ pending' = pending
            /\ cacheCalls'[p] = <<>>
            /\ ret'[p] = Items(table, call[p].input.Select, call[p].input.Projection,
                               Len(PKSeq))]_vars

\* C8 witness: a query or scan without ttl that returned two records and
\* made no cache call
C8_Witness ==
  \E p \in Procs :
    /\ IsBulk(p) /\ pc[p] = "done" /\ call[p].ttl = Undef
    /\ Len(ret[p]) = 2 /\ cacheCalls[p] = <<>> /\ pending = {}

\* the cache read of getItem failed: the client rejected, or the string it
\* returned is not JSON
ReadFailed(p) ==
  /\ HasRead(p)
  /\ \/ cacheCalls[p][1].outcome = "rejected"
     \/ ReadOk(p) /\ Truthy(ReadEntry(p)) /\ ~JSONparse(ReadEntry(p)).ok

\* C9: after a failed cache read getItem goes on to the store fetch; if it
\* fails, the store call or the cache write failed, and if it returns, it
\* returns what the store fetch found.
C9_ReadFailureIsMiss ==
  \A p \in Procs :
    ReadFailed(p) =>
      /\ pc[p] \in {"get_fetch", "get_set", "done", "failed"}
      /\ pc[p] # "get_fetch" => Len(storeCalls[p]) = 1 /\ storeCalls[p][1].op = "get"
      /\ pc[p] = "failed" =>
           \/ ~storeCalls[p][1].ok
           \/ Len(cacheCalls[p]) = 2 /\ cacheCalls[p][2].outcome = "rejected"
      /\ pc[p] = "done" => storeCalls[p][1].ok /\ ret[p] = table[PKOf(call[p].input.Key)]

\* C9 witness: a getItem whose cache read found a string that is not JSON and
\* that returned the record of the table
C9_Witness ==
  \E p \in Procs :
    /\ ReadFailed(p) /\ ReadOk(p) /\ pc[p] = "done" /\ ret[p] \in Records

\* C10 as stated: a getItem whose store fetch succeeded and found the record
\* does not fail, whatever the cache calls did.
C10_CacheFailureNeverBlocksRead ==
  \A p \in Procs :
    (/\ IsGetItem(p)
     /\ storeCalls[p] # <<>>
     /\ storeCalls[p][1].ok
     /\ item[p] # Undef) => pc[p] # "failed"

\* ---- failures
IsApolloError(e) == e.t = "error" /\ e.name = "ApolloError"
\* the underlying error is present and has a non-empty message
HasMessage(e) == e.t = "error" /\ e.message.t = "string" /\ e.message.s # <<>>
\* the message a wrapping error carries: the underlying one, or the default
CarriedMessage(e, default) == IF HasMessage(e) THEN e.message ELSE default
StoreFailed(p) == storeCalls[p] # <<>> /\ ~storeCalls[p][1].ok
NoCacheWrite(p) == \A i \in 1..Len(cacheCalls[p]) : cacheCalls[p][i].op # "set"

\* C11: a getItem whose store fetch failed has failed with an ApolloError that
\* carries the message of the error the store threw, or the default retrieval
\* message when that error is absent or has no message, and has made no cache
\* write.
C11_FetchFailureWrapped ==
  \A p \in Procs :
    (IsGetItem(p) /\ StoreFailed(p)) =>
      /\ pc[p] = "failed"
      /\ exc[p] = ApolloError(CarriedMessage(storeCalls[p][1].thrown, DefaultGetMessage))
      /\ NoCacheWrite(p)

\* C11 witness: a getItem that failed with the message of the store's error
C11_Witness ==
  \E p \in Procs :
    /\ IsGetItem(p) /\ StoreFailed(p) /\ pc[p] = "failed"
    /\ HasMessage(storeCalls[p][1].thrown)
    /\ exc[p].message = storeCalls[p][1].thrown.message

\* getItem's keyValueCache.set has rejected
GetWriteFailed(p) ==
  /\ IsGetItem(p) /\ Len(cacheCalls[p]) = 2
  /\ cacheCalls[p][2].op = "set" /\ cacheCalls[p][2].outcome = "rejected"

\* C12: a getItem whose cache write rejected after a successful store fetch has
\* failed, with an ApolloError that carries the message of the error the cache
\* client threw, or the default retrieval message when that error is absent or
\* has no message.
C12_CacheWriteFailureSurfaces ==
  \A p \in Procs :
    GetWriteFailed(p) =>
      /\ OneStoreCall(p, "get")
      /\ pc[p] = "failed"
      /\ exc[p] = ApolloError(CarriedMessage(cacheCalls[p][2].thrown, DefaultGetMessage))

\* C12 witness: a getItem that fetched a record, whose cache write rejected
\* with an error without message, and that failed with the default message
C12_Witness ==
  \E p \in Procs :
    /\ GetWriteFailed(p) /\ item[p] \in Records
    /\ cacheCalls[p][2].thrown = Err("Error", Str(<<>>))
    /\ exc[p] = ApolloError(DefaultGetMessage)

EvictFailed(p) ==
  /\ call[p].name = "delete" /\ Len(cacheCalls[p]) = 1
  /\ cacheCalls[p][1].op = "delete" /\ cacheCalls[p][1].outcome = "rejected"

\* C13: a delete whose cache eviction rejected has failed with an ApolloError
\* that carries the message of the error the cache client threw, or the default
\* eviction message when that error is absent or has no message; a delete whose
\* store call failed has failed with the store's own error, which is not an
\* ApolloError.
C13_EvictFailureIsApolloError ==
  \A p \in Procs :
    /\ EvictFailed(p) =>
         /\ pc[p] = "failed"
         /\ IsApolloError(exc[p])
         /\ exc[p].message = CarriedMessage(cacheCalls[p][1].thrown, DefaultEvictMessage)
    /\ (call[p].name = "delete" /\ StoreFailed(p)) =>
         /\ pc[p] = "failed"
         /\ exc[p] = storeCalls[p][1].thrown
         /\ ~IsApolloError(exc[p])

\* C13 witness: a delete that removed the record from the table, whose eviction
\* rejected with null, and that failed with the default eviction message
C13_Witness ==
  \E p \in Procs :
    /\ EvictFailed(p) /\ cacheCalls[p][1].thrown = Null
    /\ table[PKOf(call[p].input.Key)] = Undef
    /\ exc[p] = ApolloError(DefaultEvictMessage)

\* C14: a query or scan whose store call failed has failed with exactly the
\* error the store threw, not an ApolloError, and has issued no cache write.
C14_BulkStoreErrorUnwrapped ==
  \A p \in Procs :
    (IsBulk(p) /\ StoreFailed(p)) =>
      /\ pc[p] = "failed"
      /\ exc[p] = storeCalls[p][1].thrown
      /\ ~IsApolloError(exc[p])
      /\ cacheCalls[p] = <<>>

\* C14 witness: a scan with a ttl over a table that holds a record, failed with
\* the store's error
C14_Witness ==
  \E p \in Procs :
    /\ call[p].name = "scan" /\ StoreFailed(p) /\ call[p].ttl = Num(60)
    /\ \E pk \in PKs : table[pk] # Undef
    /\ exc[p] = Err("AWSError", Str(<<"store failed">>))

IsWrite(p) == call[p].name \in {"put", "update"}
\* the record the store write of a put or update leaves in the table
Written(p) ==
  IF call[p].name = "put" THEN call[p].input.Item
  ELSE Rec(PKOf(call[p].input.Key), call[p].input.SetV)

\* C15: whenever a put or update has made a cache call, its store write has
\* already succeeded and taken effect in the table; a put or update whose store
\* write failed has failed with the store's error and made no cache call.
C15_StoreWriteFirst ==
  \A p \in Procs :
    IsWrite(p) =>
      /\ cacheCalls[p] # <<>> =>
           /\ OneStoreCall(p, call[p].name)
           /\ table[PKOf(Written(p))] = Written(p)
      /\ StoreFailed(p) =>
           /\ pc[p] = "failed"
           /\ exc[p] = storeCalls[p][1].thrown
           /\ cacheCalls[p] = <<>>

\* C15 witness: a put with a ttl that wrote the table and then the cache
C15_Witness ==
  \E p \in Procs :
    /\ call[p].name = "put" /\ call[p].ttl = Num(60)
    /\ OneStoreCall(p, "put") /\ Len(cacheCalls[p]) = 1
    /\ cacheCalls[p][1].outcome = "resolved"
    /\ table[PKOf(Written(p))] = Written(p)

\* ---- what the documentation promises
\* getItem would return a cached value for a request with this Key
WouldHit(c, key) == Truthy(RetrieveFromCache(CacheRead(c, RequestKeyString(key))))

\* C16 as stated: once a delete has completed with no cache write unsettled, no
\* Key object a caller can form for the deleted primary key, in any attribute
\* order, finds a cached value, so the next getItem for it consults the store.
C16_DeleteLeavesNoCachedRecord ==
  \A p \in Procs :
    (call[p].name = "delete" /\ pc[p] = "done" /\ pending = {}) =>
      \A key \in KeyObjs :
        PKOf(key) = PKOf(call[p].input.Key) => ~WouldHit(cache, key)

\* the store fetch of getItem found no record
FetchedNothing(p) ==
  /\ IsGetItem(p) /\ storeCalls[p] # <<>> /\ storeCalls[p][1].ok
  /\ item[p] = Undef

\* C17 as stated: a getItem whose store fetch found no record makes no
\* cache write.
C17_NoRecordNoCacheWrite ==
  \A p \in Procs : FetchedNothing(p) => NoCacheWrite(p)

\* C18 as stated: a getItem that found the key neither in the cache nor in the
\* table ends failed with an ApolloError; it never returns an absent value.
C18_MissingKeyFails ==
  \A p \in Procs :
    (FetchedNothing(p) /\ pc[p] \in {"done", "failed"}) =>
      pc[p] = "failed" /\ IsApolloError(exc[p])

\* C19 as stated: the request update sends to the store names ALL_NEW whatever
\* the caller's request names, and the record update returns, and caches, is
\* the record the table holds for the key after the update.
C19_UpdateRequestsAllNew ==
  \A p \in Procs :
    (call[p].name = "update" /\ pc[p] = "done") =>
      /\ storeCalls[p][1].input.ReturnValues = "ALL_NEW"
      /\ ret[p] = table[PKOf(call[p].input.Key)]
      /\ \A i \in 1..Len(cacheCalls[p]) :
           cacheCalls[p][i].value = JsonText(table[PKOf(call[p].input.Key)])

\* C20 as stated: when a query or scan called with a ttl has returned records,
\* every cache write it issued has completed: none is unsettled and the cache
\* holds each written value.
C20_BulkWritesCompleteOnReturn ==
  \A p \in Procs :
    (IsBulk(p) /\ pc[p] = "done" /\ NonZeroTtl(call[p].ttl) /\ Len(ret[p]) > 0) =>
      \A i \in 1..Len(cacheCalls[p]) :
        /\ [key |-> cacheCalls[p][i].key, value |-> cacheCalls[p][i].value,
            ttl |-> cacheCalls[p][i].ttl] \notin pending
        /\ CacheRead(cache, cacheCalls[p][i].key) = cacheCalls[p][i].value

\* ---- bulk cache population
\* a step in which a cache write of setItemsInCache settles without effect: the
\* write leaves the unsettled set and the cache does not hold its value
BulkWriteFails(w) ==
  /\ w \in pending /\ pending' = pending \ {w}
  /\ cache' = cache
  /\ CacheRead(cache, w.key) # w.value

\* C21 as stated: whenever a cache write issued by a query or scan fails, the
\* failure is reported: in that step some caller's promise rejects.
C21_BulkWriteFailureReported ==
  [][(\E w \in pending : BulkWriteFails(w))
       => \E p \in Procs : pc'[p] = "failed" /\ pc[p] # "failed"]_vars

\* ---- the cache as a view of the table
IsMutation(p) == call[p].name \in {"put", "update", "delete"}
\* the table a successful store request leaves, from the table before it and
\* the request alone
StoreEffect(tbl, c) ==
  CASE c.op = "put" -> [tbl EXCEPT ![PKOf(c.input.Item)] = c.input.Item]
    [] c.op = "update" ->
         [tbl EXCEPT ![PKOf(c.input.Key)] = Rec(PKOf(c.input.Key), c.input.SetV)]
    [] c.op = "delete" -> [tbl EXCEPT ![PKOf(c.input.Key)] = Undef]
    [] OTHER -> tbl
\* the callers whose store request succeeds in this step
StoreSucceeds(p) ==
  /\ Len(storeCalls'[p]) = Len(storeCalls[p]) + 1
  /\ storeCalls'[p][Len(storeCalls'[p])].ok

\* C22: with a cache that loses entries at arbitrary points, (1) every put,
\* update and delete sends its store request, the caller's own, before it makes
\* any cache call, and (2) every step leaves the table as the store request
\* that succeeds in it makes it, computed from the table before and the request
\* alone, or unchanged when no store request succeeds in it; so the contents of
\* the table after any sequence of operations are those of the same sequence run
\* with the cache intact.
C22_CacheIsDisposable ==
  /\ [](\A p \in Procs :
          IsMutation(p) =>
            /\ storeCalls[p] = <<>> => cacheCalls[p] = <<>> /\ pc[p] \notin {"done", "failed"}
            /\ storeCalls[p] # <<>> => storeCalls[p][1].input = call[p].input)
  /\ [][IF \E p \in Procs : StoreSucceeds(p)
        THEN \E p \in Procs :
               /\ StoreSucceeds(p)
               /\ table' = StoreEffect(table, storeCalls'[p][Len(storeCalls'[p])])
        ELSE table' = table]_vars

\* C22 witness: a put with a ttl has written the table and the cache and
\* returned, the cache has since lost the entry, and the table holds the record
C22_Witness ==
  \E p \in Procs :
    /\ call[p].name = "put" /\ pc[p] = "done" /\ Len(cacheCalls[p]) = 1
    /\ cacheCalls[p][1].outcome = "resolved"
    /\ CacheRead(cache, cacheCalls[p][1].key) = Undef
    /\ table[PKOf(call[p].input.Item)] = call[p].input.Item

\* ---- concurrent getItem and put
\* caller p completes a cache write in this step
CompletesWrite(p) ==
  /\ Len(cacheCalls'[p]) = Len(cacheCalls[p]) + 1
  /\ cacheCalls'[p][Len(cacheCalls'[p])].op = "set"
  /\ cacheCalls'[p][Len(cacheCalls'[p])].outcome = "resolved"
\* the cache write caller p has completed, if any
WroteCache(p) ==
  /\ cacheCalls[p] # <<>>
  /\ cacheCalls[p][Len(cacheCalls[p])].op = "set"
  /\ cacheCalls[p][Len(cacheCalls[p])].outcome = "resolved"
LastCacheCall(p) == cacheCalls[p][Len(cacheCalls[p])]

\* C23: with a getItem and a put running concurrently, every cache write that
\* completes leaves its value in the entry of its key, whatever the entry held
\* and whichever operation wrote it before, and no other step changes the cache;
\* so once both have completed and have written the same key, the entry holds
\* the value of the write that completed last, one of the two values written.
C23_LastCacheWriteWins ==
  /\ [][IF \E p \in Callers : CompletesWrite(p)
        THEN \E p \in Callers :
               /\ CompletesWrite(p)
               /\ cache' = CacheWrite(cache, cacheCalls'[p][Len(cacheCalls'[p])].key,
                                      cacheCalls'[p][Len(cacheCalls'[p])].value)
               /\ CacheRead(cache', cacheCalls'[p][Len(cacheCalls'[p])].key)
                    = cacheCalls'[p][Len(cacheCalls'[p])].value
        ELSE cache' = cache]_vars
  /\ []((/\ pc[Reader] = "done" /\ pc[Writer] = "done"
         /\ WroteCache(Reader) /\ WroteCache(Writer)
         /\ LastCacheCall(Reader).key = LastCacheCall(Writer).key)
          => CacheRead(cache, LastCacheCall(Reader).key)
               \in {LastCacheCall(Reader).value, LastCacheCall(Writer).value})

\* C23 witness: a getItem that missed and a put with a ttl for the same primary
\* key have both completed; the getItem fetched before the put wrote the table
\* and wrote the cache after the put did, so the entry holds the record the put
\* replaced
C23_Witness ==
  /\ pc[Reader] = "done" /\ pc[Writer] = "done"
  /\ WroteCache(Reader) /\ WroteCache(Writer)
  /\ LastCacheCall(Reader).key = LastCacheCall(Writer).key
  /\ LastCacheCall(Reader).value # LastCacheCall(Writer).value
  /\ CacheRead(cache, LastCacheCall(Reader).key) = LastCacheCall(Reader).value
  /\ table[PKOf(call[Writer].input.Item)] = call[Writer].input.Item
  /\ ret[Reader] \in Records

\* ---- no retries
Ended(p) == pc[p] \in {"done", "failed"}
\* a call of either client that rejected
SomeCallFailed(p) ==
  \/ StoreFailed(p)
  \/ \E i \in 1..Len(cacheCalls[p]) :
       cacheCalls[p][i].outcome = "rejected" /\ cacheCalls[p][i].op # "get"

\* C24: every invocation makes at most one store call and at most one call of
\* each kind to the cache client per key; once a store call or an awaited cache
\* write or eviction has failed the invocation has ended, failed, and that call
\* was its last; an invocation that has ended has either returned, with no
\* error raised, or failed, with nothing returned.
C24_NoRetries ==
  \A p \in Procs :
    /\ Len(storeCalls[p]) <= 1
    /\ \A i, j \in 1..Len(cacheCalls[p]) :
         (cacheCalls[p][i].op = cacheCalls[p][j].op
            /\ cacheCalls[p][i].key = cacheCalls[p][j].key) => i = j
    /\ SomeCallFailed(p) =>
         /\ pc[p] = "failed"
         /\ StoreFailed(p) => NoCacheWrite(p)
         /\ \A i \in 1..Len(cacheCalls[p]) :
              (cacheCalls[p][i].outcome = "rejected" /\ cacheCalls[p][i].op # "get")
                => i = Len(cacheCalls[p])
    /\ pc[p] = "done" => exc[p] = Undef /\ ~SomeCallFailed(p)
    /\ pc[p] = "failed" => ret[p] = Undef /\ SomeCallFailed(p)

\* C24 witness: a getItem whose cache read rejected, whose store fetch
\* succeeded and whose cache write rejected, ended failed after one store call
C24_Witness ==
  \E p \in Procs :
    /\ IsGetItem(p) /\ pc[p] = "failed"
    /\ Len(storeCalls[p]) = 1 /\ storeCalls[p][1].ok
    /\ Len(cacheCalls[p]) = 2
    /\ cacheCalls[p][1].outcome = "rejected" /\ cacheCalls[p][2].outcome = "rejected"

\* ---- the key builders
Returned(p, name) == call[p].name = name /\ pc[p] = "done"
\* an attribute value written as a string
ValueText(v) ==
  CASE v.t = "string" -> v.s
    [] v.t = "number" -> <<ToString(v.n)>>
    [] OTHER -> <<"undefined">>
\* ":" name "-" value for entries i..Len(e) of a key, left to right
RECURSIVE EntriesText(_, _)
EntriesText(e, i) ==
  IF i > Len(e) THEN <<>>
  ELSE <<":">> \o e[i][1] \o <<"-">> \o ValueText(e[i][2]) \o EntriesText(e, i + 1)

\* C25: buildCacheKey(prefix, table, key) returns prefix, then table, then for
\* each entry of the key in insertion order ":" name "-" value; prefix "c:",
\* table "t", key {id: "x"} gives "c:t:id-x" and key {id: "x", ts: "2020"}
\* gives "c:t:id-x:ts-2020".
C25_CacheKeyFormat ==
  \A p \in Callers :
    Returned(p, "buildCacheKey") =>
      LET in == call[p].input
      IN /\ ret[p] = Str(in.cachePrefix \o in.tableName \o EntriesText(in.key.e, 1))
         /\ (in.cachePrefix = <<"c", ":">> /\ in.tableName = <<"t">>
               /\ in.key = Obj(<<<<AttrId, UX>>>>))
              => ret[p] = Str(<<"c", ":", "t", ":", "id", "-", "x">>)
         /\ (in.cachePrefix = <<"c", ":">> /\ in.tableName = <<"t">>
               /\ in.key = Obj(<<<<AttrId, UX>>, <<AttrTs, U2020>>>>))
              => ret[p] = Str(<<"c", ":", "t", ":", "id", "-", "x", ":", "ts", "-", "2020">>)

\* C25 witness: buildCacheKey("c:", "t", {id: "x", ts: "2020"}) has returned
\* "c:t:id-x:ts-2020"
C25_Witness ==
  \E p \in Callers :
    /\ Returned(p, "buildCacheKey")
    /\ call[p].input = [cachePrefix |-> <<"c", ":">>, tableName |-> <<"t">>,
                        key |-> Obj(<<<<AttrId, UX>>, <<AttrTs, U2020>>>>)]
    /\ ret[p] = Str(<<"c", ":", "t", ":", "id", "-", "x", ":", "ts", "-", "2020">>)

\* C26 as stated: the cache key getItem, update and delete derive from the
\* caller's key object is the key put, query and scan derive from the record:
\* prefix, table, then the key attributes in key-schema order, whatever the
\* attribute order of the caller's key object.
C26_KeysInSchemaOrder ==
  \A p \in Procs :
    (call[p].name \in {"getItem", "update", "delete"}) =>
      \A i \in 1..Len(cacheCalls[p]) :
        cacheCalls[p][i].key = SchemaKeyString(call[p].input.Key)

\* the record has every attribute of the schema
HasAttrs(keySchema, it) ==
  \A i \in 1..Len(keySchema) : \E j \in 1..Len(it.e) : it.e[j][1] = keySchema[i]
\* the value the record has for an attribute it contains
AttrOf(it, name) == (CHOOSE j \in 1..Len(it.e) : it.e[j][1] = name)

\* C27: for a key schema S and a record R that has every attribute of S,
\* buildKey(S, R) is a mapping with exactly the attributes of S, each with R's
\* value; two calls with equal arguments return equal mappings.
C27_BuildKeyExtractsSchemaAttrs ==
  \A p \in Callers :
    (Returned(p, "buildKey") /\ HasAttrs(call[p].input.keySchema, call[p].input.item)) =>
      LET S == call[p].input.keySchema
          R == call[p].input.item
      IN /\ ret[p].t = "object"
         /\ Len(ret[p].e) = Len(S)
         /\ {ret[p].e[i][1] : i \in 1..Len(ret[p].e)} = {S[i] : i \in 1..Len(S)}
         /\ \A i \in 1..Len(ret[p].e) :
              ret[p].e[i][2] = R.e[AttrOf(R, ret[p].e[i][1])][2]
         /\ \A q \in Callers :
              (Returned(q, "buildKey") /\ call[q].input = call[p].input) => ret[q] = ret[p]

\* C27 witness: buildKey of the schema (ts, id) and the record {v, ts, id} has
\* returned {ts: "2020", id: "x"}, in both of two calls
C27_Witness ==
  \A p \in Callers :
    /\ Returned(p, "buildKey")
    /\ call[p].input.keySchema = <<AttrTs, AttrId>>
    /\ call[p].input.item = Obj(<<<<AttrV, Num(1)>>, <<AttrTs, U2020>>, <<AttrId, UX>>>>)
    /\ ret[p] = Obj(<<<<AttrTs, U2020>>, <<AttrId, UX>>>>)

\* two records have the same values for the attributes of the schema
SamePrimaryKey(keySchema, r1, r2) ==
  \A i \in 1..Len(keySchema) : Prop(r1.e, keySchema[i]) = Prop(r2.e, keySchema[i])

\* C28: two records with the same values for the schema's attributes get the
\* same cache key from buildCacheKey(prefix, table, buildKey(schema, record))
\* under the same prefix, table and schema, whatever their other attributes and
\* the order of their attributes.
C28_CacheKeyIgnoresOtherAttrs ==
  \A p, q \in Callers :
    (/\ Returned(p, "itemCacheKey") /\ Returned(q, "itemCacheKey")
     /\ call[p].input.cachePrefix = call[q].input.cachePrefix
     /\ call[p].input.tableName = call[q].input.tableName
     /\ call[p].input.keySchema = call[q].input.keySchema
     /\ SamePrimaryKey(call[p].input.keySchema, call[p].input.item, call[q].input.item))
      => ret[p] = ret[q]

\* C28 witness: two records with the same id and ts, another v and another
\* attribute order have been given the same cache key
C28_Witness ==
  \E p, q \in Callers :
    /\ Returned(p, "itemCacheKey") /\ Returned(q, "itemCacheKey")
    /\ call[p].input.keySchema = <<AttrId, AttrTs>>
    /\ call[q].input.keySchema = <<AttrId, AttrTs>>
    /\ call[p].input.item = Obj(<<<<AttrId, UX>>, <<AttrTs, U2020>>, <<AttrV, Num(2)>>>>)
    /\ call[q].input.item = Obj(<<<<AttrV, Num(1)>>, <<AttrTs, U2020>>, <<AttrId, UX>>>>)
    /\ ret[p] = ret[q]

\* two keys have the same attribute names in the same order
SameNames(k1, k2) ==
  /\ Len(k1.e) = Len(k2.e)
  /\ \A i \in 1..Len(k1.e) : k1.e[i][1] = k2.e[i][1]
\* two calls of buildCacheKey with the same prefix, table and attribute names
Comparable(p, q) ==
  /\ Returned(p, "buildCacheKey") /\ Returned(q, "buildCacheKey")
  /\ call[p].input.cachePrefix = call[q].input.cachePrefix
  /\ call[p].input.tableName = call[q].input.tableName
  /\ SameNames(call[p].input.key, call[q].input.key)
\* no attribute value of the key, written as a string, contains ":"
ColonFree(k) ==
  \A i \in 1..Len(k.e) :
    \A j \in 1..Len(ValueText(k.e[i][2])) : ValueText(k.e[i][2])[j] # ":"

\* C29: under the same prefix, table and attribute names, two keys
\* that differ in some attribute value get different cache keys, and equal keys
\* get equal cache keys.
C29_CacheKeyInjective ==
  \A p, q \in Callers :
    Comparable(p, q) =>
      (call[p].input.key = call[q].input.key <=> ret[p] = ret[q])

\* On the values without ":" the cache key is injective: under the same prefix,
\* table and attribute names, equal keys get equal cache keys, and two keys whose
\* attribute values contain no ":" and, written as strings, differ in some
\* attribute get different cache keys.
CacheKeyInjectiveWithoutColon ==
  \A p, q \in Callers :
    Comparable(p, q) =>
      /\ call[p].input.key = call[q].input.key => ret[p] = ret[q]
      /\ (/\ ColonFree(call[p].input.key) /\ ColonFree(call[q].input.key)
          /\ \E i \in 1..Len(call[p].input.key.e) :
               ValueText(call[p].input.key.e[i][2]) # ValueText(call[q].input.key.e[i][2]))
           => ret[p] # ret[q]

\* the keys {id: "x", ts: "2020"} and {id: "1", ts: "2020"} have
\* been given different cache keys
DistinctKeysDistinctCacheKeys ==
  \E p, q \in Callers :
    /\ Comparable(p, q)
    /\ call[p].input.key = Obj(<<<<AttrId, UX>>, <<AttrTs, U2020>>>>)
    /\ call[q].input.key = Obj(<<<<AttrId, Str(<<"1">>)>>, <<AttrTs, U2020>>>>)
    /\ ret[p] # ret[q]

\* the cache key the schema gives a record: prefix, table, then ":" name "-"
\* value for attributes i..Len(keySchema) of the schema
RECURSIVE SchemaText(_, _, _)
SchemaText(keySchema, it, i) ==
  IF i > Len(keySchema) THEN <<>>
  ELSE <<":">> \o keySchema[i] \o <<"-">> \o ValueText(Prop(it.e, keySchema[i]))
         \o SchemaText(keySchema, it, i + 1)
DerivedKey(in, it) == in.cachePrefix \o in.tableName \o SchemaText(in.keySchema, it, 1)

\* C30: the map buildItemsCacheMap returns has one entry per distinct derived
\* cache key of the input records, and the entry of a key holds, whole, the last
\* input record that derives that key.
C30_ItemsMapLastWins ==
  \A p \in Callers :
    Returned(p, "buildItemsCacheMap") =>
      LET in == call[p].input
          m == ret[p].e
      IN /\ \A i, j \in 1..Len(m) : m[i][1] = m[j][1] => i = j
         /\ {m[i][1] : i \in 1..Len(m)}
              = {DerivedKey(in, in.items[j]) : j \in 1..Len(in.items)}
         /\ \A i \in 1..Len(m) :
              \E j \in 1..Len(in.items) :
                /\ m[i] = <<DerivedKey(in, in.items[j]), in.items[j]>>
                /\ \A k \in (j + 1)..Len(in.items) :
                     DerivedKey(in, in.items[k]) # m[i][1]

\* C30 witness: of two records with the same id and ts and another v, the map
\* has one entry, holding the second
C30_Witness ==
  \E p \in Callers :
    /\ Returned(p, "buildItemsCacheMap")
    /\ Len(call[p].input.items) = 2
    /\ call[p].input.items[1] # call[p].input.items[2]
    /\ Len(ret[p].e) = 1
    /\ ret[p].e[1][2] = call[p].input.items[2]

\* the ttl a cache write made for caller p must carry: the caller's, or 1800
\* seconds when the caller gave none
ExpectedTtl(p) == IF call[p].ttl = Undef THEN Num(1800) ELSE call[p].ttl

\* C31: setInCache makes one keyValueCache.set, of the given key and the
\* serialized item, with the given ttl or 1800 seconds when none is given; when
\* setItemsInCache has returned it has made exactly one such call per entry of
\* the map, in the map's order, each with the entry's key, the entry's
\* serialized item and that same ttl.
C31_DefaultTtlAndOneSetPerEntry ==
  \A p \in Procs :
    /\ (call[p].name = "setInCache" /\ Ended(p)) =>
         /\ Len(cacheCalls[p]) = 1
         /\ cacheCalls[p][1].op = "set"
         /\ cacheCalls[p][1].key = call[p].input.key
         /\ cacheCalls[p][1].value = JsonText(call[p].input.item)
         /\ cacheCalls[p][1].ttl = ExpectedTtl(p)
         /\ (pc[p] = "done") = (cacheCalls[p][1].outcome = "resolved")
    /\ (call[p].name = "setItemsInCache" /\ Ended(p)) =>
         LET map == call[p].input.items.e
         IN /\ pc[p] = "done"
            /\ Len(cacheCalls[p]) = Len(map)
            /\ \A i \in 1..Len(map) :
                 /\ cacheCalls[p][i].op = "set"
                 /\ cacheCalls[p][i].key = map[i][1]
                 /\ cacheCalls[p][i].value = JsonText(map[i][2])
                 /\ cacheCalls[p][i].ttl = ExpectedTtl(p)

\* C31 witness: setItemsInCache, called without a ttl on a map of two entries,
\* has returned after two set calls with a ttl of 1800 seconds
C31_Witness ==
  \E p \in Procs :
    /\ call[p].name = "setItemsInCache" /\ pc[p] = "done"
    /\ call[p].ttl = Undef
    /\ Len(call[p].input.items.e) = 2
    /\ Len(cacheCalls[p]) = 2
    /\ \A i \in 1..2 : cacheCalls[p][i].ttl = Num(1800)

Operations == {"getItem", "query", "scan", "put", "update", "delete"}

\* C32: as long as a data source has not been initialized, none of its
\* operations (getItem, query, scan, put, update, delete) has completed: each
\* ends with an error.
C32_InitializeFirst ==
  \A p \in Procs :
    (dynamodbCache[p] = Undef /\ call[p].name \in Operations) => pc[p] # "done"

\* the data source of caller p has been initialized without a cache: the
\* cache argument was left out or was null
NoCacheSupplied(p) == dynamodbCache[p] # Undef /\ KeyValueCacheOf(p) # Supplied
\* a keyValueCache call of p's operation failed because there is no cache
\* object to call
NoCacheObject(p) ==
  \E i \in 1..Len(cacheCalls[p]) :
    /\ cacheCalls[p][i].thrown # Undef /\ cacheCalls[p][i].thrown # Null
    /\ cacheCalls[p][i].thrown.name = "TypeError"

\* C33: a data source initialized without a cache uses an in-process cache
\* that its own initialization created, no other data source initialized
\* without a cache uses the same one, and none of its operations fails for
\* want of a cache object.
C33_OwnDefaultCache ==
  \A p \in Callers :
    NoCacheSupplied(p) =>
      /\ KeyValueCacheOf(p) = [t |-> "cache", id |-> p]
      /\ \A q \in Callers \ {p} : NoCacheSupplied(q) => KeyValueCacheOf(q) # KeyValueCacheOf(p)
      /\ ~NoCacheObject(p)

\* no docClient or keyValueCache call of p's operation has failed
NoFailure(p) ==
  /\ \A i \in 1..Len(storeCalls[p]) : storeCalls[p][i].ok
  /\ \A i \in 1..Len(cacheCalls[p]) : cacheCalls[p][i].outcome # "rejected"
\* the record the writer's completed put or update has written
JustWritten ==
  IF call[Writer].name = "put" THEN call[Writer].input.Item
  ELSE Rec(PKOf(call[Writer].input.Key), call[Writer].input.SetV)
WrittenPK ==
  IF call[Writer].name = "put" THEN PKOf(call[Writer].input.Item)
  ELSE PKOf(call[Writer].input.Key)

\* C34: with one operation at a time and no failures, a getItem that follows a
\* successful put or update of the same primary key returns the record that
\* was written, with or without a ttl and whether or not the cache held an
\* entry for the key before the write.
C34_ReadYourWrites ==
  (/\ pc[Writer] = "done" /\ NoFailure(Writer)
   /\ pc[Reader] = "done" /\ NoFailure(Reader)
   /\ PKOf(call[Reader].input.Key) = WrittenPK)
    => ret[Reader] = JustWritten

\* C35: when a delete has returned and the getItem that ran concurrently with
\* it on the same Key has ended, the cache holds no record under the cache key
\* of that Key and the table holds none, in every interleaving of their steps.
C35_DeleteRaceLeavesNoRecord ==
  (/\ call[Writer].name = "delete" /\ pc[Writer] = "done"
   /\ call[Reader].name = "getItem" /\ Ended(Reader)
   /\ call[Reader].input.Key = call[Writer].input.Key
   /\ table[PKOf(call[Writer].input.Key)] = Undef)
    => ~WouldHit(cache, call[Writer].input.Key)

\* the store call of p's put, update or delete succeeded and its cache write
\* or eviction, the only cache call, was rejected
CacheStepFailed(p) ==
  /\ IsMutation(p)
  /\ Len(storeCalls[p]) = 1 /\ storeCalls[p][1].ok
  /\ Len(cacheCalls[p]) = 1 /\ cacheCalls[p][1].outcome = "rejected"
\* what the table holds under the primary key of p's request once the store
\* call has succeeded
Committed(p) ==
  CASE call[p].name = "put" -> call[p].input.Item
    [] call[p].name = "update" -> Rec(PKOf(call[p].input.Key), call[p].input.SetV)
    [] OTHER -> Undef
RequestPK(p) ==
  IF call[p].name = "put" THEN PKOf(call[p].input.Item) ELSE PKOf(call[p].input.Key)

\* C36: when the store call of a put, update or delete has succeeded and the
\* cache write or eviction that follows has failed, the operation has failed,
\* nothing was returned, the table still holds the written record (no record
\* after a delete), and a put or update has failed with the very value the
\* cache client rejected with.
C36_NoRollback ==
  \A p \in Procs :
    CacheStepFailed(p) =>
      /\ pc[p] = "failed"
      /\ ret[p] = Undef
      /\ table[RequestPK(p)] = Committed(p)
      /\ call[p].name \in {"put", "update"} => exc[p] = cacheCalls[p][1].thrown

\* C36 witness: a put whose cache write was rejected with an Error has failed
\* with that Error while the table holds the item
C36_Witness ==
  \E p \in Procs :
    /\ CacheStepFailed(p) /\ call[p].name = "put"
    /\ exc[p] = Err("Error", Str(<<"cache failed">>))
    /\ table[RequestPK(p)] = call[p].input.Item

\* getItem has asked the store, once, with the caller's request
ConsultedStore(p) == storeCalls[p] = <<StoreCall("get", call[p].input, TRUE, Undef)>>
\* the cache entry getItem read is empty or deserializes to a falsy value
ReadFalsy(p) ==
  /\ HasRead(p) /\ ReadOk(p)
  /\ \/ ~Truthy(ReadEntry(p))
     \/ ParseableNonEmpty(ReadEntry(p)) /\ ~Truthy(JSONparse(ReadEntry(p)).v)

\* C37: among getItem calls, one that has returned for a primary key without a
\* record in the table has asked the store, however many getItem calls came
\* before it and whatever they wrote to the cache; a getItem that returned no
\* record has asked the store; and a getItem that read an empty entry or one
\* that deserializes to a falsy value went on to the store as on a miss.
C37_AbsenceNotServedFromCache ==
  \A p \in Procs :
    IsGetItem(p) =>
      /\ (pc[p] = "done" /\ table[PKOf(call[p].input.Key)] = Undef) => ConsultedStore(p)
      /\ (pc[p] = "done" /\ ~Truthy(ret[p])) => ConsultedStore(p)
      /\ ReadFalsy(p) => pc[p] \in {"get_fetch", "get_set", "failed"} \/ ConsultedStore(p)

\* C37 witness: the second getItem for a key without a record, whose cache
\* entry the first one wrote, has asked the store
C37_Witness ==
  \E p \in Procs :
    /\ IsGetItem(p) /\ ncalls = 2 /\ pc[p] = "get_set"
    /\ table[PKOf(call[p].input.Key)] = Undef
    /\ Prefixed(cacheKey[p]) \in DOMAIN cache
    /\ ReadFalsy(p)
    /\ ConsultedStore(p)

\* C38: a getItem that has returned a record has returned one whose key-schema
\* attributes have the values of the Key it was asked for, after any earlier
\* operations on the table and for key values that contain ':' and '-'.
C38_NoOtherRecord ==
  \A p \in Procs :
    (IsGetItem(p) /\ pc[p] = "done" /\ Truthy(ret[p]))
      => /\ Prop(ret[p].e, AttrId) = Prop(call[p].input.Key.e, AttrId)
         /\ Prop(ret[p].e, AttrTs) = Prop(call[p].input.Key.e, AttrTs)

\* C39: put, update, query and scan called with a ttl of 0 make no cache call,
\* as when the ttl is left out; a getItem that missed and fetched makes its
\* cache write whatever the ttl, passing 0 when the ttl is 0 and 1800 seconds
\* when the ttl is left out, and has made it when it returns.
C39_ZeroTtl ==
  \A p \in Procs :
    /\ (call[p].name \in {"put", "update", "query", "scan"}
        /\ call[p].ttl \in {Undef, Num(0)})
         => cacheCalls[p] = <<>>
    /\ IsGetItem(p) =>
         /\ (ReadMiss(p) /\ pc[p] = "done") => Len(cacheCalls[p]) = 2
         /\ Len(cacheCalls[p]) = 2 =>
              /\ cacheCalls[p][2].op = "set"
              /\ call[p].ttl = Num(0) => cacheCalls[p][2].ttl = Num(0)
              /\ call[p].ttl = Undef => cacheCalls[p][2].ttl = Num(1800)
              /\ call[p].ttl = Num(60) => cacheCalls[p][2].ttl = Num(60)

\* C39 witness: a getItem called with a ttl of 0 has missed, fetched a record
\* and written it to the cache with a ttl of 0
C39_Witness ==
  \E p \in Procs :
    /\ IsGetItem(p) /\ ReadMiss(p) /\ pc[p] = "done"
    /\ call[p].ttl = Num(0)
    /\ ret[p] \in Records
    /\ cacheCalls[p][2] = CacheCall("set", GetDerivedKey(p), JSONstringify(ret[p]), Num(0), "resolved")

====
